---------------------------- MODULE Spec2Model ----------------------------
(***************************************************************************)
(* State-machine model of the "Place Needles" exhibit                      *)
(* (src/src/MapScene.jsx, latest MapScene component, lines 1591-4253).     *)
(*                                                                         *)
(* Numbers.  Latitudes and longitudes are integers in micro-degrees        *)
(* (47.6205 deg = 47620500).  Distances are whole metres.  Dollar rates    *)
(* are in cents per square foot, land values and tourism revenue in USD.   *)
(* JavaScript doubles are replaced by exact integer arithmetic with the    *)
(* roundings written out in each operator.                                 *)
(***************************************************************************)
EXTENDS Integers, Sequences, FiniteSets, TLC

Null == -1

Abs(x) == IF x < 0 THEN -x ELSE x

Max(a, b) == IF a >= b THEN a ELSE b

Min(a, b) == IF a <= b THEN a ELSE b

\* Math.round: the nearest integer, halves towards +infinity; num/den, den > 0.
MathRound(num, den) == (2 * num + den) \div (2 * den)

RECURSIVE ISqrtLoop(_, _, _)
ISqrtLoop(x, lo, hi) ==
  IF lo >= hi THEN lo
  ELSE LET mid == (lo + hi + 1) \div 2
       IN IF mid * mid <= x THEN ISqrtLoop(x, mid, hi) ELSE ISqrtLoop(x, lo, mid - 1)

\* Math.sqrt, rounded down to a whole number.
ISqrt(x) == ISqrtLoop(x, 0, 46340)

(***************************************************************************)
(* Program constants.                                                      *)
(***************************************************************************)
SEATTLE_CENTER == [lat |-> 47620500, lng |-> -122349300, altitude |-> 0]

ORIGINAL_NEEDLE_POSITION == [lat |-> 47620500, lng |-> -122349300, altitude |-> 0]

ORIGINAL_NEEDLE_ID == 0

DEFAULT_TILT == 67

DEFAULT_HEADING == 230

DEFAULT_RANGE == 900

FOOTPRINT_RADIUS_M == 122

VISIT_TILT == 82

VISIT_RANGE_M == 200

\* 520 ft above sea level, 158.496 m, in millimetres.
VISIT_ALTITUDE_ASL_MM == 158496

VISIT_HEADING_OFFSET_DEG == 15

DEFAULT_RATE_PER_SQFT == 900

QUANTIZE_GRID == 200

TOURISM_DISTANCE_DECAY_KM == 12

\* NEEDLE_BASE_AREA_SQFT * SOFT_COST_MULT / 10000 = 15.217105..., times 10^5.
AREA_SOFT_COST_E5 == 1521711

SEATTLE_CITY_LIMITS ==
  [latMin |-> 47530000, latMax |-> 47680000, lngMin |-> -122440000, lngMax |-> -122250000]

ZONES ==
  << [name |-> "Downtown",         center |-> [lat |-> 47609700, lng |-> -122333100], radiusM |-> 650, ratePerSqFt |-> 2800],
     [name |-> "South Lake Union", center |-> [lat |-> 47627900, lng |-> -122337200], radiusM |-> 520, ratePerSqFt |-> 2200],
     [name |-> "Belltown",         center |-> [lat |-> 47616300, lng |-> -122345600], radiusM |-> 480, ratePerSqFt |-> 2500],
     [name |-> "Queen Anne",       center |-> [lat |-> 47635400, lng |-> -122357000], radiusM |-> 600, ratePerSqFt |-> 1700],
     [name |-> "Capitol Hill",     center |-> [lat |-> 47625200, lng |-> -122321200], radiusM |-> 580, ratePerSqFt |-> 1800],
     [name |-> "Ballard",          center |-> [lat |-> 47668400, lng |-> -122384600], radiusM |-> 550, ratePerSqFt |-> 1200],
     [name |-> "Fremont",          center |-> [lat |-> 47651300, lng |-> -122350700], radiusM |-> 400, ratePerSqFt |-> 1100],
     [name |-> "U District",       center |-> [lat |-> 47660500, lng |-> -122314000], radiusM |-> 500, ratePerSqFt |-> 1000],
     [name |-> "Magnolia",         center |-> [lat |-> 47639700, lng |-> -122399200], radiusM |-> 600, ratePerSqFt |-> 1100],
     [name |-> "West Seattle",     center |-> [lat |-> 47565200, lng |-> -122386800], radiusM |-> 700, ratePerSqFt |-> 800],
     [name |-> "Beacon Hill",      center |-> [lat |-> 47580500, lng |-> -122310200], radiusM |-> 500, ratePerSqFt |-> 700],
     [name |-> "Rainier Valley",   center |-> [lat |-> 47557500, lng |-> -122284500], radiusM |-> 600, ratePerSqFt |-> 600],
     [name |-> "Seattle Center",   center |-> [lat |-> 47620500, lng |-> -122349300], radiusM |-> 400, ratePerSqFt |-> 2000],
     [name |-> "First Hill",       center |-> [lat |-> 47610200, lng |-> -122325800], radiusM |-> 380, ratePerSqFt |-> 1900] >>

(***************************************************************************)
(* Geodesy.                                                                *)
(***************************************************************************)
\* Haversine distance at city scale.  With R = 6371000 one micro-degree of
\* latitude is 0.111195 m and, at Seattle's latitude (cos = 0.67405), one
\* micro-degree of longitude is 0.07495 m; the result is rounded down.
distanceMeters(a, b) ==
  LET northM == (Abs(b.lat - a.lat) * 1112) \div 10000
      eastM  == (Abs(b.lng - a.lng) * 7495) \div 100000
  IN ISqrt(northM * northM + eastM * eastM)

isInsideCityLimits(lat, lng) ==
  /\ lat >= SEATTLE_CITY_LIMITS.latMin
  /\ lat <= SEATTLE_CITY_LIMITS.latMax
  /\ lng >= SEATTLE_CITY_LIMITS.lngMin
  /\ lng <= SEATTLE_CITY_LIMITS.lngMax

(***************************************************************************)
(* Valuation engine.                                                       *)
(***************************************************************************)
RECURSIVE DigitCodes(_)
\* The character codes of the decimal digits of n >= 0 ("0" is 48).
DigitCodes(n) == IF n < 10 THEN <<48 + n>> ELSE DigitCodes(n \div 10) \o <<48 + (n % 10)>>

RECURSIVE PadCodes(_, _)
\* The n lowest decimal digits of v, zero padded.
PadCodes(v, n) == IF n = 0 THEN <<>> ELSE PadCodes(v \div 10, n - 1) \o <<48 + (v % 10)>>

\* Number.prototype.toFixed(6) of a value given in micro-degrees: character codes
\* ("-" is 45, "." is 46).
toFixed6(v) ==
  (IF v < 0 THEN <<45>> ELSE <<>>)
    \o DigitCodes(Abs(v) \div 1000000) \o <<46>> \o PadCodes(Abs(v) % 1000000, 6)

\* Math.round(x / QUANTIZE_GRID) * QUANTIZE_GRID on micro-degrees.
Quantize(v) == MathRound(v, QUANTIZE_GRID) * QUANTIZE_GRID

\* h = (h * 31 + code) >>> 0 on an unsigned 32-bit h kept as two 16-bit halves.
HashStep(h, code) ==
  LET lo == h.lo * 31 + code
      hi == h.hi * 31 + (lo \div 65536)
  IN [hi |-> hi % 65536, lo |-> lo % 65536]

RECURSIVE HashCodes(_, _)
HashCodes(h, codes) ==
  IF codes = <<>> THEN h ELSE HashCodes(HashStep(h, Head(codes)), Tail(codes))

\* Variant: the seed hashes the raw coordinate, without quantizing it.
seedFromQuantizedLatLng_Raw(lat, lng) ==
  HashCodes([hi |-> 0, lo |-> 0], toFixed6(lat) \o toFixed6(lng))

\* The 32-bit seed of the quantized coordinate, as its two 16-bit halves.
seedFromQuantizedLatLng(lat, lng) ==
  HashCodes([hi |-> 0, lo |-> 0], toFixed6(Quantize(lat)) \o toFixed6(Quantize(lng)))

LCG_MODULUS == 233280

\* seed % 233280 of a 32-bit seed given as halves.
SeedMod(h) == ((((h.hi * 256) % LCG_MODULUS) * 256) + h.lo) % LCG_MODULUS

\* One draw of seededRandom: seed = (seed * 9301 + 49297) % 233280 (9301 = 4650 + 4651);
\* the value returned to the caller is seed / 233280.
seededRandom(seed) ==
  (((seed * 4650) % LCG_MODULUS) + ((seed * 4651) % LCG_MODULUS) + 49297) % LCG_MODULUS

\* Variant: the first matching zone wins, overlaps are not averaged.
ZoneMatches_FirstOnly(lat, lng) ==
  LET all == SelectSeq(ZONES, LAMBDA z : distanceMeters([lat |-> lat, lng |-> lng], z.center) <= z.radiusM)
  IN IF all = <<>> THEN <<>> ELSE <<Head(all)>>

\* The zones whose centre is within their radius of the point.
ZoneMatches(lat, lng) ==
  SelectSeq(ZONES, LAMBDA z : distanceMeters([lat |-> lat, lng |-> lng], z.center) <= z.radiusM)

RECURSIVE SumRates(_)
SumRates(zs) == IF zs = <<>> THEN 0 ELSE Head(zs).ratePerSqFt + SumRates(Tail(zs))

RECURSIVE ZoneNames(_)
ZoneNames(zs) == IF zs = <<>> THEN <<>> ELSE <<Head(zs).name>> \o ZoneNames(Tail(zs))

\* The jitter multiplier 0.95 + r() * 0.1 in units of 10^-5 (10000 / 233280 = 625 / 14580).
JitterE5(lat, lng) ==
  95000 + (seededRandom(SeedMod(seedFromQuantizedLatLng(lat, lng))) * 625) \div 14580

\* ratePerSqFt is in cents (rounded down); landValue is in USD; the label of a border
\* zone is the tuple of every matched zone name after the tag "Border Zone".
getValuationAtLatLng(lat, lng) ==
  LET matches == ZoneMatches(lat, lng)
      n == Len(matches)
      rateSum == IF n = 0 THEN DEFAULT_RATE_PER_SQFT ELSE SumRates(matches)
      cnt == IF n = 0 THEN 1 ELSE n
      neighborhoodLabel ==
        IF n = 0 THEN <<"Seattle (General)">>
        ELSE IF n = 1 THEN <<matches[1].name>>
        ELSE <<"Border Zone">> \o ZoneNames(matches)
      finalRate == (rateSum * JitterE5(lat, lng)) \div (cnt * 1000)
      \* Math.round(finalRate * AREA * SOFT_COST_MULT / 10000) with 1521711 = 1521 * 1000 + 711
      units == (finalRate * (AREA_SOFT_COST_E5 \div 1000)
                 + (finalRate * (AREA_SOFT_COST_E5 % 1000) + 5000000) \div 1000) \div 10000
  IN [ratePerSqFt |-> finalRate, landValue |-> units * 10000, neighborhoodLabel |-> neighborhoodLabel]

TOURISM_INSIDE_MIN_UB == 300000

TOURISM_REVENUE_MAX_UB == 1400000

TOURISM_OUTSIDE_MIN_UB == 50000

TOURISM_OUTSIDE_CITY_MAX_UB == 500000

\* Variant: the distance decay is missing (distanceFactor is always 1).
computeTourismRevenue_NoDecay(lat, lng) ==
  LET r1 == seededRandom(SeedMod(seedFromQuantizedLatLng(lat, lng)))
      r2 == seededRandom(r1)
      valueIn == 600000 + (r1 * 2500) \div 729 + (r2 * 625) \div 243 - 300000
      valueOut == 200000 + (r1 * 3125) \div 2916 + (r2 * 625) \div 729 - 100000
  IN IF isInsideCityLimits(lat, lng)
     THEN 1000 * Max(TOURISM_INSIDE_MIN_UB, Min(TOURISM_REVENUE_MAX_UB, valueIn))
     ELSE 1000 * Max(TOURISM_OUTSIDE_MIN_UB, Min(TOURISM_OUTSIDE_CITY_MAX_UB, valueOut))

\* Variant: the lower clamps (0.3 inside, 0.05 outside) are missing.
computeTourismRevenue_NoFloor(lat, lng) ==
  LET distM == distanceMeters([lat |-> lat, lng |-> lng], ORIGINAL_NEEDLE_POSITION)
      distanceFactor == Max(200, (TOURISM_DISTANCE_DECAY_KM * 1000 - distM) \div TOURISM_DISTANCE_DECAY_KM)
      r1 == seededRandom(SeedMod(seedFromQuantizedLatLng(lat, lng)))
      r2 == seededRandom(r1)
      valueIn == ((600000 + (r1 * 2500) \div 729 + (r2 * 625) \div 243 - 300000) * distanceFactor) \div 1000
      valueOut == ((200000 + (r1 * 3125) \div 2916 + (r2 * 625) \div 729 - 100000) * distanceFactor) \div 1000
  IN IF isInsideCityLimits(lat, lng)
     THEN 1000 * Min(TOURISM_REVENUE_MAX_UB, valueIn)
     ELSE 1000 * Min(TOURISM_OUTSIDE_CITY_MAX_UB, valueOut)

\* Tourism revenue in USD.  Billions are kept in millionths ("UB" = 1000 USD):
\* inside:  base = 0.6 + r1 * 0.8 (800000 / 233280 = 2500 / 729), fluct = (r2 - 0.5) * 0.6;
\* outside: base = 0.2 + r1 * 0.25 (= 3125 / 2916),               fluct = (r2 - 0.5) * 0.2;
\* distanceFactor = max(0.2, 1 - distKm / 12) in thousandths.
computeTourismRevenue(lat, lng) ==
  LET distM == distanceMeters([lat |-> lat, lng |-> lng], ORIGINAL_NEEDLE_POSITION)
      distanceFactor == Max(200, (TOURISM_DISTANCE_DECAY_KM * 1000 - distM) \div TOURISM_DISTANCE_DECAY_KM)
      r1 == seededRandom(SeedMod(seedFromQuantizedLatLng(lat, lng)))
      r2 == seededRandom(r1)
      valueIn == ((600000 + (r1 * 2500) \div 729 + (r2 * 625) \div 243 - 300000) * distanceFactor) \div 1000
      valueOut == ((200000 + (r1 * 3125) \div 2916 + (r2 * 625) \div 729 - 100000) * distanceFactor) \div 1000
  IN IF isInsideCityLimits(lat, lng)
     THEN 1000 * Max(TOURISM_INSIDE_MIN_UB, Min(TOURISM_REVENUE_MAX_UB, valueIn))
     ELSE 1000 * Max(TOURISM_OUTSIDE_MIN_UB, Min(TOURISM_OUTSIDE_CITY_MAX_UB, valueOut))



(***************************************************************************)
(* Land / water classification and drop sounds.                            *)
(***************************************************************************)

\* JS null for a position ({lat, lng, altitude} | null): a record no event
\* position equals.
NoLatLng == [lat |-> 0, lng |-> 0, altitude |-> 0]

\* JS null for an elevation in metres (number | null).
NoElevation == -100000

InBounds(lat, lng, b) ==
  /\ lat >= b.latMin
  /\ lat <= b.latMax
  /\ lng >= b.lngMin
  /\ lng <= b.lngMax

\* Ray casting east over the edges (j, i) = (n, 1), (1, 2), ..., (n-1, n).
\* lngCross > lng is decided without the division, by the sign of latJ - latI.
EdgeCrossesRight(lat, lng, pI, pJ) ==
  /\ pI[1] # pJ[1]
  /\ (pI[1] > lat) # (pJ[1] > lat)
  /\ LET num == (pI[2] - lng) * (pJ[1] - pI[1]) + (pJ[2] - pI[2]) * (lat - pI[1])
     IN IF pJ[1] > pI[1] THEN num > 0 ELSE num < 0

pointInPolygon(lat, lng, polygon) ==
  LET n == Len(polygon)
      crossings == { i \in 1..n :
                       EdgeCrossesRight(lat, lng, polygon[i],
                                        polygon[IF i = 1 THEN n ELSE i - 1]) }
  IN n >= 3 /\ Cardinality(crossings) % 2 = 1

\* The neighbourhood rings the GeoJSON fetch delivers: one ring north of the
\* reference point (lat 47.6204..47.6400, lng -122.3600..-122.3400).
NEIGHBORHOODS_GEOJSON ==
  << << <<47620400, -122360000>>, <<47640000, -122360000>>,
        <<47640000, -122340000>>, <<47620400, -122340000>> >> >>

isInSeattleNeighborhood(polygons, lat, lng) ==
  /\ Len(polygons) > 0
  /\ \E k \in 1..Len(polygons) : pointInPolygon(lat, lng, polygons[k])

WATER_BOUNDS ==
  << [latMin |-> 47530000, latMax |-> 47680000, lngMin |-> -122480000, lngMax |-> -122320000],
     [latMin |-> 47634000, latMax |-> 47648000, lngMin |-> -122338000, lngMax |-> -122318000],
     [latMin |-> 47530000, latMax |-> 47660000, lngMin |-> -122318000, lngMax |-> -122240000],
     [latMin |-> 47648000, latMax |-> 47658000, lngMin |-> -122318000, lngMax |-> -122298000] >>

isInWaterBounds(lat, lng) ==
  \E k \in 1..Len(WATER_BOUNDS) : InBounds(lat, lng, WATER_BOUNDS[k])

\* Variant: the null test on the elevation is missing (in JS, null <= 1 holds).
isWaterPlacement_NullIsLow(polygons, lat, lng, elevation) ==
  IF isInSeattleNeighborhood(polygons, lat, lng) THEN FALSE
  ELSE IF isInWaterBounds(lat, lng) THEN TRUE
  ELSE (IF elevation = NoElevation THEN 0 ELSE elevation) <= 1

isWaterPlacement(polygons, lat, lng, elevation) ==
  IF isInSeattleNeighborhood(polygons, lat, lng) THEN FALSE
  ELSE IF isInWaterBounds(lat, lng) THEN TRUE
  ELSE IF elevation # NoElevation THEN elevation <= 1
  ELSE FALSE

UW_CAMPUS_BOUNDS ==
  [latMin |-> 47649800, latMax |-> 47657800, lngMin |-> -122314000, lngMax |-> -122296000]
LUMEN_FIELD_BOUNDS ==
  [latMin |-> 47594200, latMax |-> 47595800, lngMin |-> -122332800, lngMax |-> -122330200]
T_MOBILE_PARK_BOUNDS ==
  [latMin |-> 47590600, latMax |-> 47593200, lngMin |-> -122334800, lngMax |-> -122330200]
CLIMATE_PLEDGE_ARENA_BOUNDS ==
  [latMin |-> 47621400, latMax |-> 47622600, lngMin |-> -122354200, lngMax |-> -122351800]
MOPOP_BOUNDS ==
  [latMin |-> 47621050, latMax |-> 47621730, lngMin |-> -122348450, lngMax |-> -122347670]
CHIHULY_BOUNDS ==
  [latMin |-> 47619980, latMax |-> 47620480, lngMin |-> -122350950, lngMax |-> -122350480]
PACIFIC_SCIENCE_CENTER_BOUNDS ==
  [latMin |-> 47619280, latMax |-> 47619680, lngMin |-> -122351080, lngMax |-> -122350520]

\* The sound the click handler starts for a drop at `at` (sound enabled).
DropSound(polygons, at, elevation) ==
  IF InBounds(at.lat, at.lng, UW_CAMPUS_BOUNDS) THEN "dogBark"
  ELSE IF InBounds(at.lat, at.lng, LUMEN_FIELD_BOUNDS) THEN "crowdStomp"
  ELSE IF InBounds(at.lat, at.lng, T_MOBILE_PARK_BOUNDS) THEN "baseballOrgan"
  ELSE IF InBounds(at.lat, at.lng, CLIMATE_PLEDGE_ARENA_BOUNDS) THEN "airHorn"
  ELSE IF \/ InBounds(at.lat, at.lng, MOPOP_BOUNDS)
          \/ InBounds(at.lat, at.lng, CHIHULY_BOUNDS)
          \/ InBounds(at.lat, at.lng, PACIFIC_SCIENCE_CENTER_BOUNDS) THEN "glassSmash"
  ELSE IF isWaterPlacement(polygons, at.lat, at.lng, elevation) THEN "splash"
  ELSE "crunch"

\* Outcomes of the elevation service call: it throws, it answers without a
\* numeric elevation, or it answers with an elevation in metres.
ElevationResponses ==
  { [kind |-> "throws", elevation |-> 0],
    [kind |-> "noResult", elevation |-> 0],
    [kind |-> "ok", elevation |-> 0],
    [kind |-> "ok", elevation |-> 50] }

getElevationAt(resp) ==
  IF resp.kind = "ok" THEN resp.elevation ELSE NoElevation

\* Bearing in whole degrees from a to b, with atan(t) for t in [0, 1]
\* taken as 45 t + 15.66 t (1 - t) degrees, mirrored into the other octants.
AtanDeg(num, den) ==
  IF den = 0 THEN 0
  ELSE LET t == (num * 1000) \div den
       IN (45000 * t + (1566 * t * (1000 - t)) \div 100) \div 1000000

Atan2Deg(x, y) ==
  LET ax == Abs(x)
      ay == Abs(y)
      base == IF ax <= ay THEN AtanDeg(ax, ay) ELSE 90 - AtanDeg(ay, ax)
  IN IF x = 0 /\ y = 0 THEN 0
     ELSE IF y >= 0 THEN (IF x >= 0 THEN base ELSE -base)
     ELSE (IF x >= 0 THEN 180 - base ELSE base - 180)

bearingDegrees(a, b) ==
  LET eastM  == ((b.lng - a.lng) * 7495) \div 100000
      northM == ((b.lat - a.lat) * 1112) \div 10000
  IN (Atan2Deg(eastM, northM) + 360) % 360


(***************************************************************************)
(* Projectors.  Pixels are whole wrapper pixels on input and tenths of a   *)
(* pixel on output; a missing pose number (undefined) is Null and a        *)
(* missing centre is NoLatLng.  Intermediate pixel offsets are kept in     *)
(* tenths and every division rounds to the nearest integer.                *)
(***************************************************************************)

\* The wrapper rectangle (getBoundingClientRect), in pixels.
ViewportRect == [width |-> 800, height |-> 600]

\* No pixel (JS null for {x, y}).
NoXY == [x |-> Null, y |-> Null]

\* Math.cos of an angle in degrees, times 10^4, for the angles of the poses
\* modelled; Math.sin(d) is Math.cos(d - 90).
CosE4(deg) ==
  CASE deg = -90 -> 0      [] deg = -80 -> 1736  [] deg = 0 -> 10000
    [] deg = 10 -> 9848    [] deg = 45 -> 7071   [] deg = 60 -> 5000
    [] deg = 67 -> 3907    [] deg = 82 -> 1392   [] deg = 85 -> 872
    [] deg = 90 -> 0       [] deg = 140 -> -7660 [] deg = 230 -> -6428

\* Micro-degrees of latitude per pixel, times 10^3:
\* metersPerPx * 0.5 / 111320 with metersPerPx = range * 2.2 / min(width, height)
\* (1.1 * 10^9 / 111320 = 9881.4).
LatPerPxE3(pose, rect) ==
  MathRound((IF pose.range = Null THEN 1200 ELSE pose.range) * 98814,
            Min(rect.width, rect.height) * 10)

\* The same for longitude: divided by cos(center.lat), 0.67405 at the
\* latitude of the city (67405 / 100000 = 13481 / 20000).
LngPerPxE3(pose, rect) == MathRound(LatPerPxE3(pose, rect) * 20000, 13481)

\* max(0.25, cos(tilt)) times 10^4: the reciprocal of yScale.
TiltCosE4(pose) == Max(2500, CosE4(IF pose.tilt = Null THEN 0 ELSE pose.tilt))

\* Variant: the test of the pixel against the rectangle is missing.
pixelToApproxLatLng_NoBounds(pose, rect, x, y) ==
  IF pose.center = NoLatLng THEN NoLatLng
  ELSE
    LET h == IF pose.heading = Null THEN 0 ELSE pose.heading
        dx == (2 * x - rect.width) * 5
        dy == MathRound((2 * y - rect.height) * 5 * 10000, TiltCosE4(pose))
        eastPx == MathRound(dx * CosE4(h) - dy * CosE4(h - 90), 10000)
        northPx == MathRound(0 - dx * CosE4(h - 90) - dy * CosE4(h), 10000)
    IN [lat |-> pose.center.lat + MathRound(northPx * LatPerPxE3(pose, rect), 10000),
        lng |-> pose.center.lng + MathRound(eastPx * LngPerPxE3(pose, rect), 10000),
        altitude |-> 0]

\* pixelToApproxLatLng(mapEl, rect, clientX, clientY) with x, y relative to rect.
pixelToApproxLatLng(pose, rect, x, y) ==
  IF x < 0 \/ x > rect.width \/ y < 0 \/ y > rect.height THEN NoLatLng
  ELSE IF pose.center = NoLatLng THEN NoLatLng
  ELSE
    LET h == IF pose.heading = Null THEN 0 ELSE pose.heading
        dx == (2 * x - rect.width) * 5
        dy == MathRound((2 * y - rect.height) * 5 * 10000, TiltCosE4(pose))
        eastPx == MathRound(dx * CosE4(h) - dy * CosE4(h - 90), 10000)
        northPx == MathRound(0 - dx * CosE4(h - 90) - dy * CosE4(h), 10000)
    IN [lat |-> pose.center.lat + MathRound(northPx * LatPerPxE3(pose, rect), 10000),
        lng |-> pose.center.lng + MathRound(eastPx * LngPerPxE3(pose, rect), 10000),
        altitude |-> 0]

\* Variant: the tilt scale is not undone (dy /= yScale is missing).
latLngToContainerPixel_NoTilt(pose, rect, latLng) ==
  IF latLng = NoLatLng \/ pose.center = NoLatLng THEN NoXY
  ELSE
    LET h == IF pose.heading = Null THEN 0 ELSE pose.heading
        northPx == MathRound((latLng.lat - pose.center.lat) * 10000, LatPerPxE3(pose, rect))
        eastPx == MathRound((latLng.lng - pose.center.lng) * 10000, LngPerPxE3(pose, rect))
        dx == MathRound(eastPx * CosE4(h) - northPx * CosE4(h - 90), 10000)
        dy == MathRound(0 - eastPx * CosE4(h - 90) - northPx * CosE4(h), 10000)
    IN [x |-> rect.width * 5 + dx, y |-> rect.height * 5 + dy]

\* latLngToContainerPixel(mapEl, containerRect, latLng): tenths of a pixel.
latLngToContainerPixel(pose, rect, latLng) ==
  IF latLng = NoLatLng \/ pose.center = NoLatLng THEN NoXY
  ELSE
    LET h == IF pose.heading = Null THEN 0 ELSE pose.heading
        northPx == MathRound((latLng.lat - pose.center.lat) * 10000, LatPerPxE3(pose, rect))
        eastPx == MathRound((latLng.lng - pose.center.lng) * 10000, LngPerPxE3(pose, rect))
        dx == MathRound(eastPx * CosE4(h) - northPx * CosE4(h - 90), 10000)
        dy == MathRound(0 - eastPx * CosE4(h - 90) - northPx * CosE4(h), 10000)
    IN [x |-> rect.width * 5 + dx,
        y |-> rect.height * 5 + MathRound(dy * TiltCosE4(pose), 10000)]

\* wrapperPixelToLatLngWithProjection: the overlay projection's answer `exact`
\* when the projection is attached, the pixel is inside the map div and the
\* callback answers; null when it is detached, returns null or throws.
wrapperPixelToLatLngWithProjection(engine, rect, x, y, exact) ==
  IF engine = "detached" THEN NoLatLng
  ELSE IF x < 0 \/ x > rect.width \/ y < 0 \/ y > rect.height THEN NoLatLng
  ELSE IF engine = "ok" THEN exact
  ELSE NoLatLng

\* latLngToWrapperPixelWithProjection: the projection's pixel `exactXY` when
\* it answers, null when fromLatLngToDivPixel returns null, and the
\* approximate pixel when the projection is detached or throws.
latLngToWrapperPixelWithProjection(pose, rect, latLng, engine, exactXY) ==
  IF latLng = NoLatLng THEN NoXY
  ELSE IF engine = "ok" THEN exactXY
  ELSE IF engine = "null" THEN NoXY
  ELSE latLngToContainerPixel(pose, rect, latLng)

(***************************************************************************)
(* The MapScene component: state, refs and the map element.                *)
(***************************************************************************)

\* Largest value nextPlacementIdRef may reach, and the number of click
\* handlers that may be suspended on the elevation lookup at once.
MaxId == 3
MaxPending == 2

\* Geographic positions the projector hands to pointer and click events (on
\* the 0.0002-degree grid, away from cell borders): 33 m north of the
\* reference point, inside the water box and inside the neighbourhood ring;
\* and a point outside the city box and outside every water box.
NearNorth == [lat |-> 47620800, lng |-> -122349400, altitude |-> 0]
FarNorth  == [lat |-> 47700000, lng |-> -122300000, altitude |-> 0]
Points == {NearNorth, FarNorth}

\* Positions for the hit-testing runs, all on the meridian of the reference
\* point, `off` micro-degrees north of it (0.1112 m per micro-degree).
NorthOf(off) ==
  [lat |-> SEATTLE_CENTER.lat + off, lng |-> SEATTLE_CENTER.lng, altitude |-> 0]

\* Two placed needles, 196 m and 392 m north of the original.
HitNeedleA == NorthOf(1764)
HitNeedleB == NorthOf(3528)

\* Pointer positions: 122 m and 121 m south of the original; 83 m and 84 m
\* from the original with A at 112 m; half way between the original and A;
\* 90 m and 73 m from A with the original at 106 m and 122 m; 84 m and 83 m
\* from B with A at 112 m; 121 m and 122 m north of B.
HitPointerPoints ==
  { NorthOf(off) : off \in {-1098, -1097, 755, 756, 882, 954, 1100, 2772, 2773, 4625, 4626} }

\* Pairs of positions with the same seeded draws, for a first and a second
\* needle: 2.0 km and 3.2 km from the original, in different cells whose
\* seeds agree modulo 233280; 7 m and 19 m from the original, in one cell;
\* and two positions of one cell 25 km south, outside the city box.
TourPairs ==
  { << [lat |-> 47620400, lng |-> -122375800, altitude |-> 0],
       [lat |-> 47600000, lng |-> -122379600, altitude |-> 0] >>,
    << [lat |-> 47620500, lng |-> -122349400, altitude |-> 0],
       [lat |-> 47620650, lng |-> -122349450, altitude |-> 0] >>,
    << [lat |-> 47400000, lng |-> -122420000, altitude |-> 0],
       [lat |-> 47400050, lng |-> -122420000, altitude |-> 0] >> }

\* Positions for the valuation runs: the centre of every zone; two positions
\* of one 0.0002-degree cell 547 m and 553 m east of the Ballard centre
\* (radius 550 m); an off-grid position in NearNorth's cell and NearNorth;
\* a position inside both Downtown and First Hill and one inside both
\* Belltown and Seattle Center; a position 7 m west of the original needle;
\* the pairs of positions with the same seeded draws; and a lattice reaching
\* 14 km beyond the city box.
ValPoints ==
  { [lat |-> ZONES[i].center.lat, lng |-> ZONES[i].center.lng, altitude |-> 0] :
      i \in 1..Len(ZONES) }
    \cup { [lat |-> 47668400, lng |-> -122377290, altitude |-> 0],
           [lat |-> 47668400, lng |-> -122377210, altitude |-> 0],
           [lat |-> 47620850, lng |-> -122349450, altitude |-> 0],
           NearNorth,
           [lat |-> 47610000, lng |-> -122329000, altitude |-> 0],
           [lat |-> 47618400, lng |-> -122347400, altitude |-> 0],
           [lat |-> 47620500, lng |-> -122349400, altitude |-> 0] }
    \cup { pr[1] : pr \in TourPairs } \cup { pr[2] : pr \in TourPairs }
    \cup { [lat |-> lat, lng |-> lng, altitude |-> 0] :
             lat \in {47400000, 47540000, 47600000, 47660000, 47760000},
             lng \in {-122480000, -122420000, -122340000, -122270000, -122200000} }

VARIABLES
  mapLibReady, mapSteady, overlayReady, mapError,   \* loading state
  seattleNeighborhoodPolygons,                      \* module-level cache
  placements,                                       \* placed landmarks, in order
  isPlacing, movingNeedleId, visitMode,             \* interaction mode flags
  hoveredNeedleId, hintNeedleId,                    \* hover / hint targets
  panelNeedleId, visitedNeedleId,                   \* visit panel
  hoverLatLng,                                      \* last pointer position
  nextPlacementId,                                  \* nextPlacementIdRef.current
  placedModels,                                     \* placedModelsRef: id -> model position
  originalNeedle,                                   \* originalNeedleRef: model position
  camera,                                           \* map element center/tilt/heading/range
  pending,                                          \* click handlers awaiting getElevationAt
  lastDrop,                                         \* what the last click continuation did
  polaroid, isDeveloping, photoFlash,               \* photo dialog state
  polaroidAbort,                                    \* polaroidAbortRef.current
  photoRequests,                                    \* image requests awaiting their response
  nextPhotoId,                                      \* identity of the next polaroid / controller
  probe,                                            \* a projector call: its inputs and results
  api,                                              \* a call of /api/generate-polaroid and its reply
  mapDrag,                                          \* the visitor's drag of the map: "idle", "dragging", "ended"
  haptic                                            \* the haptics module: device, clock, lastHapticAt

loadVars == <<mapLibReady, mapSteady, overlayReady, mapError, originalNeedle>>
modeVars == <<isPlacing, movingNeedleId, visitMode>>
hoverVars == <<hoveredNeedleId, hintNeedleId, hoverLatLng>>
visitVars == <<panelNeedleId, visitedNeedleId>>
needleVars == <<placements, nextPlacementId, placedModels>>

photoVars == <<polaroid, isDeveloping, photoFlash, polaroidAbort, photoRequests, nextPhotoId>>

vars == <<loadVars, seattleNeighborhoodPolygons, needleVars, modeVars, hoverVars,
          visitVars, camera, pending, lastDrop, photoVars, probe, api, mapDrag, haptic>>

NoError == ""

\* The observable outcome of a click continuation: which branch ran, whether
\* the elevation lookup gave a number, and the drop sound it started.  (The
\* poof / move / visit cues of the other handlers read no state and are not
\* modelled.)
NoDrop == [kind |-> "none", lookup |-> "none", sound |-> "none"]
UnsetCamera == [center |-> NoLatLng, tilt |-> 0, heading |-> 0, range |-> 0]
\* useState(null) for the polaroid; a record of the same shape stands for null.
NoPolaroid ==
  [id |-> Null, image |-> "none", needleId |-> Null, needleNumber |-> 0,
   lat |-> 0, lng |-> 0, status |-> "none"]

\* The haptics module as loaded: `let lastHapticAt = 0`, no tap made yet.
\* (now is the clock reading of the last call, passed tells whether any call
\* has passed the cooldown, vibrated whether the last call reached
\* navigator.vibrate.)
NoHaptic ==
  [mobile |-> FALSE, vibrate |-> "missing", now |-> 0, lastHapticAt |-> 0,
   passed |-> FALSE, vibrated |-> FALSE, calls |-> 0]

\* No call of the serverless function under examination.
NoApiCall ==
  [method |-> "none", body |-> "none", OPENAI_API_KEY |-> FALSE, REPLICATE_API_TOKEN |-> FALSE,
   visibleNeedles |-> 0, upstream |-> "none", prompt |-> "none", status |-> 0, reply |-> "none"]

\* No projector call under examination (the pointer and click handlers carry
\* the results of their own calls in their event inputs).
NoProbe ==
  [pose |-> UnsetCamera, x |-> 0, y |-> 0, engine |-> "detached",
   geo |-> NoLatLng, geoVia |-> "none", caller |-> "none", anchored |-> NoLatLng,
   xy |-> [x |-> Null, y |-> Null], xyVia |-> "none"]

DefaultCamera ==
  [center |-> SEATTLE_CENTER, tilt |-> DEFAULT_TILT,
   heading |-> DEFAULT_HEADING, range |-> DEFAULT_RANGE]

\* distanceMeters, getValuationAtLatLng and computeTourismRevenue are pure:
\* their values over the positions events can carry are tabulated once.
LatLngKey(p) == <<p.lat, p.lng>>

EventKeys ==
  { LatLngKey(p) : p \in Points \cup {SEATTLE_CENTER} \cup {HitNeedleA, HitNeedleB}
                       \cup HitPointerPoints \cup ValPoints }

KeyLatLng(k) == [lat |-> k[1], lng |-> k[2]]

DistanceMemo ==
  [a \in EventKeys |-> [b \in EventKeys |-> distanceMeters(KeyLatLng(a), KeyLatLng(b))]]

Dist(a, b) == DistanceMemo[LatLngKey(a)][LatLngKey(b)]

ValuationMemo ==
  [k \in EventKeys |->
     [valuation |-> getValuationAtLatLng(k[1], k[2]),
      tourismRevenue |-> computeTourismRevenue(k[1], k[2])]]

\* The landmark record the click handler builds for a drop at `at`.
Landmark(id, at) ==
  [id |-> id, lat |-> at.lat, lng |-> at.lng, altitude |-> at.altitude,
   neighborhoodLabel |-> ValuationMemo[LatLngKey(at)].valuation.neighborhoodLabel,
   landValue |-> ValuationMemo[LatLngKey(at)].valuation.landValue,
   ratePerSqFt |-> ValuationMemo[LatLngKey(at)].valuation.ratePerSqFt,
   tourismRevenue |-> ValuationMemo[LatLngKey(at)].tourismRevenue]

Ids(list) == { list[k].id : k \in 1..Len(list) }

\* placements.find((p) => p.id === id): index of the first match, 0 if none.
FindIndex(list, id) ==
  IF \E k \in 1..Len(list) : list[k].id = id
  THEN CHOOSE k \in 1..Len(list) :
         /\ list[k].id = id
         /\ \A j \in 1..(k - 1) : list[j].id # id
  ELSE 0

INFINITY_M == 1000000000

\* list.reduce((best, p) => d < best.d ? {id: p.id, d} : best, {id: null, d: Infinity})
RECURSIVE NearestFrom(_, _, _)
NearestFrom(list, pos, best) ==
  IF list = <<>> THEN best
  ELSE LET p == Head(list)
           d == Dist(pos, [lat |-> p.lat, lng |-> p.lng])
       IN NearestFrom(Tail(list), pos,
                      IF d < best.d THEN [id |-> p.id, d |-> d] ELSE best)

Nearest(list, pos) == NearestFrom(list, pos, [id |-> Null, d |-> INFINITY_M])

\* The placed-model sync effect: one model per placement that has none yet,
\* at the placement's position; existing models are left where they are.
SyncModels(models, list) ==
  [id \in (DOMAIN models) \cup Ids(list) |->
     IF id \in DOMAIN models THEN models[id]
     ELSE LET p == list[FindIndex(list, id)]
          IN [lat |-> p.lat, lng |-> p.lng, altitude |-> p.altitude]]

RemoveModel(models, id) == [k \in (DOMAIN models) \ {id} |-> models[k]]

NoModels == [k \in {} |-> NoLatLng]

Init ==
  /\ mapLibReady = FALSE
  /\ mapSteady = FALSE
  /\ overlayReady = FALSE
  /\ mapError = NoError
  /\ seattleNeighborhoodPolygons = <<>>
  /\ placements = <<>>
  /\ isPlacing = TRUE
  /\ movingNeedleId = Null
  /\ visitMode = FALSE
  /\ hoveredNeedleId = Null
  /\ hintNeedleId = Null
  /\ panelNeedleId = Null
  /\ visitedNeedleId = Null
  /\ hoverLatLng = NoLatLng
  /\ nextPlacementId = 1
  /\ placedModels = NoModels
  /\ originalNeedle = NoLatLng
  /\ camera = UnsetCamera
  /\ pending = <<>>
  /\ lastDrop = NoDrop
  /\ polaroid = NoPolaroid
  /\ isDeveloping = FALSE
  /\ photoFlash = FALSE
  /\ polaroidAbort = Null
  /\ photoRequests = <<>>
  /\ nextPhotoId = 1
  /\ probe = NoProbe
  /\ api = NoApiCall
  /\ mapDrag = "idle"
  /\ haptic = NoHaptic

(***************************************************************************)
(* Loading: map library, neighbourhood polygons, steady state, overlay.    *)
(***************************************************************************)

\* Variant: the library still becomes ready after its load was reported failed.
MapLibraryLoaded_AfterError ==
  /\ ~mapLibReady
  /\ mapLibReady' = TRUE
  /\ camera' = DefaultCamera
  /\ UNCHANGED <<haptic, mapDrag, api, probe, photoVars, mapSteady, overlayReady, mapError, originalNeedle,
                 seattleNeighborhoodPolygons, needleVars, modeVars, hoverVars,
                 visitVars, pending, lastDrop>>

\* ensureMapLoaded() resolves; the camera effect then sets the default pose.
MapLibraryLoaded ==
  /\ ~mapLibReady
  /\ mapError = NoError
  /\ mapLibReady' = TRUE
  /\ camera' = DefaultCamera
  /\ UNCHANGED <<haptic, mapDrag, api, probe, photoVars, mapSteady, overlayReady, mapError, originalNeedle,
                 seattleNeighborhoodPolygons, needleVars, modeVars, hoverVars,
                 visitVars, pending, lastDrop>>

\* ensureMapLoaded() rejects.
MapLibraryFailed ==
  /\ ~mapLibReady
  /\ mapError = NoError
  /\ mapError' = "Google Maps failed to load"
  /\ UNCHANGED <<haptic, mapDrag, api, probe, photoVars, mapLibReady, mapSteady, overlayReady, originalNeedle,
                 seattleNeighborhoodPolygons, needleVars, modeVars, hoverVars,
                 visitVars, camera, pending, lastDrop>>

\* The GeoJSON fetch resolves (a failed fetch leaves the cache null).
NeighborhoodsLoaded ==
  /\ seattleNeighborhoodPolygons = <<>>
  /\ seattleNeighborhoodPolygons' = NEIGHBORHOODS_GEOJSON
  /\ UNCHANGED <<haptic, mapDrag, api, probe, photoVars, loadVars, needleVars, modeVars, hoverVars, visitVars,
                 camera, pending, lastDrop>>

\* gmp-steadystate / gmp-steadychange, or the 2.5 s fallback timer.
onSteady ==
  /\ mapLibReady
  /\ ~mapSteady
  /\ mapSteady' = TRUE
  /\ UNCHANGED <<haptic, mapDrag, api, probe, photoVars, mapLibReady, overlayReady, mapError, originalNeedle,
                 seattleNeighborhoodPolygons, needleVars, modeVars, hoverVars,
                 visitVars, camera, pending, lastDrop>>

\* The overlay effect: the permanent original needle, the ghost and the
\* footprint are created, then overlayReady is set.
CreateOverlay ==
  /\ mapSteady
  /\ ~overlayReady
  /\ originalNeedle' = ORIGINAL_NEEDLE_POSITION
  /\ overlayReady' = TRUE
  /\ UNCHANGED <<haptic, mapDrag, api, probe, photoVars, mapLibReady, mapSteady, mapError,
                 seattleNeighborhoodPolygons, needleVars, modeVars, hoverVars,
                 visitVars, camera, pending, lastDrop>>

(***************************************************************************)
(* What the render shows.                                                  *)
(***************************************************************************)

\* Variant: the gate forgets the visit flag.
HoverActive_NoVisitCheck ==
  /\ ~isPlacing
  /\ movingNeedleId = Null

\* The gate of hover / hint computation and display:
\* !isPlacing && !movingNeedleId && !visitMode.
HoverActive ==
  /\ ~isPlacing
  /\ movingNeedleId = Null
  /\ ~visitMode

showHint ==
  /\ hintNeedleId # Null
  /\ hoveredNeedleId = Null
  /\ ~isPlacing
  /\ movingNeedleId = Null
  /\ ~visitMode

showMenu ==
  /\ hoveredNeedleId # Null
  /\ ~isPlacing
  /\ movingNeedleId = Null
  /\ ~visitMode

\* The ghost needle and its footprint circle are attached to the map at the
\* hover position (the footprint exists once the overlay effect has run).
showGhost ==
  /\ overlayReady
  /\ isPlacing
  /\ hoverLatLng # NoLatLng

\* The menu element is rendered for the original or for an existing placement.
MenuDisplayed ==
  /\ showMenu
  /\ \/ hoveredNeedleId = ORIGINAL_NEEDLE_ID
     \/ FindIndex(placements, hoveredNeedleId) # 0

\* Variant: the menu does not special-case the original.
MenuItems_NoOriginalCheck(id) ==
  {"Move"} \cup (IF Len(placements) > 1 THEN {"Remove"} ELSE {}) \cup {"Visit"}

\* The buttons of the action menu for needle id.
MenuItems(id) ==
  LET isOriginal == (id = ORIGINAL_NEEDLE_ID)
  IN (IF ~isOriginal THEN {"Move"} ELSE {})
     \cup (IF ~isOriginal /\ Len(placements) > 1 THEN {"Remove"} ELSE {})
     \cup {"Visit"}

(***************************************************************************)
(* Pointer move / leave.                                                   *)
(***************************************************************************)

\* Variant: the footprint tests accept a pointer on the circle itself.
HoverTarget_RadiusInclusive(list, pos) ==
  LET distToOriginal == Dist(pos, SEATTLE_CENTER)
      nearest == Nearest(list, pos)
      inOriginal == distToOriginal <= FOOTPRINT_RADIUS_M
      inNearest == nearest.id # Null /\ nearest.d <= FOOTPRINT_RADIUS_M
      originalCloser == inOriginal /\ (~inNearest \/ distToOriginal <= nearest.d)
  IN IF originalCloser THEN ORIGINAL_NEEDLE_ID
     ELSE IF inNearest THEN nearest.id
     ELSE Null

\* The needle whose footprint circle contains pos (hover branch).
HoverTarget(list, pos) ==
  LET distToOriginal == Dist(pos, SEATTLE_CENTER)
      nearest == Nearest(list, pos)
      inOriginal == distToOriginal < FOOTPRINT_RADIUS_M
      inNearest == nearest.id # Null /\ nearest.d < FOOTPRINT_RADIUS_M
      originalCloser == inOriginal /\ (~inNearest \/ distToOriginal <= nearest.d)
  IN IF originalCloser THEN ORIGINAL_NEEDLE_ID
     ELSE IF inNearest THEN nearest.id
     ELSE Null

\* The hint branch, with the 0.75 hysteresis against the current hint.
HintTarget(list, pos, currentHintId) ==
  LET distToOriginal == Dist(pos, SEATTLE_CENTER)
      inOriginal == distToOriginal < FOOTPRINT_RADIUS_M
      nearest == Nearest(list, pos)
      k == FindIndex(list, currentHintId)
      distToCurrent ==
        IF k # 0 THEN Dist(pos, [lat |-> list[k].lat, lng |-> list[k].lng])
        ELSE IF currentHintId = ORIGINAL_NEEDLE_ID THEN distToOriginal
        ELSE INFINITY_M
  IN IF Len(list) > 0
     THEN IF inOriginal /\ (nearest.id = Null \/ nearest.d >= FOOTPRINT_RADIUS_M
                            \/ distToOriginal <= nearest.d)
          THEN ORIGINAL_NEEDLE_ID
          ELSE IF nearest.id # Null /\ nearest.d < FOOTPRINT_RADIUS_M
          THEN IF currentHintId = Null THEN nearest.id
               ELSE IF nearest.id = currentHintId THEN nearest.id
               ELSE IF distToCurrent = INFINITY_M \/ 4 * nearest.d < 3 * distToCurrent
                    THEN nearest.id
                    ELSE currentHintId
          ELSE Null
     ELSE IF inOriginal THEN ORIGINAL_NEEDLE_ID
     ELSE Null

\* Inputs of a pointer or click event: is it on the map surface, is it over
\* the action menu, and what the exact and the approximate projector return
\* for its pixel (NoLatLng for null).
ProjectedPairs ==
  { <<e, a>> \in (Points \cup {NoLatLng}) \X (Points \cup {NoLatLng}) :
      e = NoLatLng \/ a = e }

onPointerMove(onSurface, overMenu, exact, approx) ==
  /\ overlayReady
  /\ overMenu => MenuDisplayed
  /\ IF ~onSurface
     THEN /\ hoveredNeedleId' = IF overMenu THEN hoveredNeedleId ELSE Null
          /\ UNCHANGED <<hintNeedleId, hoverLatLng>>
     ELSE LET pos == IF exact # NoLatLng THEN exact ELSE approx
          IN /\ hoverLatLng' = pos
             /\ IF HoverActive
                THEN /\ hoveredNeedleId' =
                          IF overMenu THEN hoveredNeedleId
                          ELSE IF pos # NoLatLng THEN HoverTarget(placements, pos)
                          ELSE Null
                     \* hoveredNeedleIdRef still holds the value of the last render
                     /\ hintNeedleId' =
                          IF hoveredNeedleId = Null /\ pos # NoLatLng
                          THEN HintTarget(placements, pos, hintNeedleId)
                          ELSE hintNeedleId
                ELSE /\ hintNeedleId' = Null
                     /\ UNCHANGED hoveredNeedleId
  /\ UNCHANGED <<haptic, mapDrag, api, probe, photoVars, loadVars, seattleNeighborhoodPolygons, needleVars, modeVars,
                 visitVars, camera, pending, lastDrop>>

onPointerLeave ==
  /\ overlayReady
  /\ hoverLatLng' = NoLatLng
  /\ hintNeedleId' = Null
  /\ hoveredNeedleId' = Null
  /\ UNCHANGED <<haptic, mapDrag, api, probe, photoVars, loadVars, seattleNeighborhoodPolygons, needleVars, modeVars,
                 visitVars, camera, pending, lastDrop>>


(***************************************************************************)
(* Click: the synchronous part of the handler, up to the elevation await.  *)
(***************************************************************************)

\* data-needle-id values a click's event path can carry: a placed model or
\* the displayed hint circle.
DomNeedleIds ==
  {Null} \cup (DOMAIN placedModels) \cup (IF showHint THEN {hintNeedleId} ELSE {})

\* The needle an idle click opens the menu for (Null: none).
ClickTarget(list, at, domNeedleId) ==
  LET nearest == Nearest(list, at)
      distToOriginal == Dist(at, SEATTLE_CENTER)
      fromPlaced ==
        IF domNeedleId # Null THEN domNeedleId
        ELSE IF Len(list) > 0 /\ nearest.id # Null /\ nearest.d < FOOTPRINT_RADIUS_M
        THEN nearest.id
        ELSE Null
      needleId ==
        IF fromPlaced # Null THEN fromPlaced
        ELSE IF /\ distToOriginal < FOOTPRINT_RADIUS_M
                /\ \/ nearest.id = Null
                   \/ nearest.d >= FOOTPRINT_RADIUS_M
                   \/ distToOriginal <= nearest.d
        THEN ORIGINAL_NEEDLE_ID
        ELSE Null
  IN IF needleId # Null /\ (needleId = ORIGINAL_NEEDLE_ID \/ FindIndex(list, needleId) # 0)
     THEN needleId
     ELSE Null

\* Place clicks suspended on the lookup; each will take one id.
PendingPlaces == Cardinality({ k \in 1..Len(pending) : pending[k].kind = "place" })

\* at: the position the handler uses (the click's, else the last hover).
ClickAt(exact, approx) ==
  LET atFromClick == IF exact # NoLatLng THEN exact ELSE approx
  IN IF atFromClick # NoLatLng THEN atFromClick ELSE hoverLatLng

onClick(onSurface, exact, approx, domNeedleId) ==
  /\ overlayReady
  /\ domNeedleId \in DomNeedleIds
  /\ LET at == ClickAt(exact, approx)
     IN IF ~onSurface \/ at = NoLatLng
        THEN UNCHANGED vars
        ELSE IF movingNeedleId # Null
        THEN \* move branch: suspended at `await getElevationAt`
             /\ Len(pending) < MaxPending
             /\ pending' = Append(pending, [kind |-> "move", at |-> at, id |-> movingNeedleId])
             /\ UNCHANGED <<haptic, mapDrag, api, probe, photoVars, loadVars, seattleNeighborhoodPolygons, needleVars,
                            modeVars, hoverVars, visitVars, camera, lastDrop>>
        ELSE IF ~isPlacing /\ ~visitMode
        THEN \* idle branch: open the menu for the clicked needle, or close it
             LET id == ClickTarget(placements, at, domNeedleId)
             IN /\ hoveredNeedleId' = id
                /\ hintNeedleId' = IF id # Null THEN Null ELSE hintNeedleId
                /\ UNCHANGED <<haptic, mapDrag, api, probe, photoVars, loadVars, seattleNeighborhoodPolygons, needleVars,
                               modeVars, hoverLatLng, visitVars, camera, pending, lastDrop>>
        ELSE IF ~isPlacing
        THEN UNCHANGED vars
        ELSE \* placement branch: suspended at `await getElevationAt`
             /\ Len(pending) < MaxPending
             /\ nextPlacementId + PendingPlaces < MaxId
             /\ pending' = Append(pending, [kind |-> "place", at |-> at, id |-> Null])
             /\ UNCHANGED <<haptic, mapDrag, api, probe, photoVars, loadVars, seattleNeighborhoodPolygons, needleVars,
                            modeVars, hoverVars, visitVars, camera, lastDrop>>

(***************************************************************************)
(* Click: the continuation after getElevationAt settles.  It runs with the *)
(* values its render closed over (the branch and movingNeedleId in the     *)
(* task); setPlacements and nextPlacementIdRef see the current values.     *)
(***************************************************************************)

RemoveAt(seq, i) == SubSeq(seq, 1, i - 1) \o SubSeq(seq, i + 1, Len(seq))

\* prev.map((p) => p.id === id ? {...p, <fields for at>} : p)
MovePlacement(list, id, at) ==
  [k \in 1..Len(list) |-> IF list[k].id = id THEN Landmark(id, at) ELSE list[k]]

onClickResume(i, resp) ==
  /\ i \in 1..Len(pending)
  /\ LET task == pending[i]
         elevation == getElevationAt(resp)
         list == IF task.kind = "move"
                 THEN MovePlacement(placements, task.id, task.at)
                 ELSE Append(placements, Landmark(nextPlacementId, task.at))
     IN /\ lastDrop' = [kind |-> task.kind,
                       lookup |-> IF elevation = NoElevation THEN "failed" ELSE "ok",
                       sound |-> DropSound(seattleNeighborhoodPolygons, task.at, elevation)]
        /\ placements' = list
        /\ placedModels' = SyncModels(placedModels, list)
        /\ nextPlacementId' = IF task.kind = "move" THEN nextPlacementId
                              ELSE nextPlacementId + 1
        /\ movingNeedleId' = IF task.kind = "move" THEN Null ELSE movingNeedleId
        /\ isPlacing' = FALSE
        /\ pending' = RemoveAt(pending, i)
  /\ UNCHANGED <<haptic, mapDrag, api, probe, photoVars, loadVars, seattleNeighborhoodPolygons, visitMode, hoverVars,
                 visitVars, camera>>

(***************************************************************************)
(* Menu actions and buttons.                                               *)
(***************************************************************************)

RECURSIVE Without(_, _)
Without(list, id) ==
  IF list = <<>> THEN <<>>
  ELSE IF Head(list).id = id THEN Without(Tail(list), id)
  ELSE <<Head(list)>> \o Without(Tail(list), id)

\* Variant: removing a needle also resets the camera, as erasing does.
onRemoveNeedle_ResetsCamera(id) ==
  /\ MenuDisplayed
  /\ id = hoveredNeedleId
  /\ "Remove" \in MenuItems(id)
  /\ placements' = Without(placements, id)
  /\ placedModels' = SyncModels(RemoveModel(placedModels, id), Without(placements, id))
  /\ hoveredNeedleId' = Null
  /\ isPlacing' = IF Len(Without(placements, id)) = 0 THEN TRUE ELSE isPlacing
  /\ camera' = DefaultCamera
  /\ UNCHANGED <<haptic, mapDrag, api, probe, photoVars, loadVars, seattleNeighborhoodPolygons, nextPlacementId,
                 movingNeedleId, visitMode, hintNeedleId, hoverLatLng, visitVars,
                 pending, lastDrop>>

onRemoveNeedle(id) ==
  /\ MenuDisplayed
  /\ id = hoveredNeedleId
  /\ "Remove" \in MenuItems(id)
  /\ placements' = Without(placements, id)
  /\ placedModels' = SyncModels(RemoveModel(placedModels, id), Without(placements, id))
  /\ hoveredNeedleId' = Null
  /\ isPlacing' = IF Len(Without(placements, id)) = 0 THEN TRUE ELSE isPlacing
  /\ UNCHANGED <<haptic, mapDrag, api, probe, photoVars, loadVars, seattleNeighborhoodPolygons, nextPlacementId,
                 movingNeedleId, visitMode, hintNeedleId, hoverLatLng, visitVars,
                 camera, pending, lastDrop>>

onMoveNeedle(id) ==
  /\ MenuDisplayed
  /\ id = hoveredNeedleId
  /\ "Move" \in MenuItems(id)
  /\ placedModels' = RemoveModel(placedModels, id)
  /\ movingNeedleId' = id
  /\ isPlacing' = TRUE
  /\ hoveredNeedleId' = Null
  /\ UNCHANGED <<haptic, mapDrag, api, probe, photoVars, loadVars, seattleNeighborhoodPolygons, placements, nextPlacementId,
                 visitMode, hintNeedleId, hoverLatLng, visitVars, camera, pending,
                 lastDrop>>

VisitCamera(visited) ==
  [center |-> [lat |-> visited.lat, lng |-> visited.lng, altitude |-> VISIT_ALTITUDE_ASL_MM],
   tilt |-> VISIT_TILT,
   heading |-> (bearingDegrees(visited, SEATTLE_CENTER) + VISIT_HEADING_OFFSET_DEG + 360) % 360,
   range |-> VISIT_RANGE_M]

onVisitNeedle(id) ==
  /\ MenuDisplayed
  /\ id = hoveredNeedleId
  /\ "Visit" \in MenuItems(id)
  /\ LET k == FindIndex(placements, id)
         visited == IF id = ORIGINAL_NEEDLE_ID THEN SEATTLE_CENTER
                    ELSE IF k # 0 THEN placements[k]
                    ELSE NoLatLng
     IN IF visited = NoLatLng
        THEN UNCHANGED vars
        ELSE /\ hoveredNeedleId' = Null
             /\ panelNeedleId' = id
             /\ visitedNeedleId' = id
             /\ visitMode' = TRUE
             /\ camera' = VisitCamera(visited)
             /\ UNCHANGED <<haptic, mapDrag, api, probe, photoVars, loadVars, seattleNeighborhoodPolygons, needleVars,
                            isPlacing, movingNeedleId, hintNeedleId, hoverLatLng,
                            pending, lastDrop>>

\* The Exit View button is rendered only while visitMode.
onExitVisit ==
  /\ visitMode
  /\ camera' = IF mapLibReady THEN DefaultCamera ELSE camera
  /\ panelNeedleId' = Null
  /\ visitMode' = FALSE
  /\ visitedNeedleId' = Null
  /\ UNCHANGED <<haptic, mapDrag, api, probe, photoVars, loadVars, seattleNeighborhoodPolygons, needleVars, isPlacing,
                 movingNeedleId, hoverVars, pending, lastDrop>>

\* Variant: erasing also restarts the id counter.
onClearNeedles_ResetIds ==
  /\ Len(placements) >= 1
  /\ placedModels' = NoModels
  /\ placements' = <<>>
  /\ nextPlacementId' = 1
  /\ movingNeedleId' = Null
  /\ hoveredNeedleId' = Null
  /\ panelNeedleId' = Null
  /\ visitMode' = FALSE
  /\ isPlacing' = TRUE
  /\ camera' = IF mapLibReady THEN DefaultCamera ELSE camera
  /\ UNCHANGED <<haptic, mapDrag, api, probe, photoVars, loadVars, seattleNeighborhoodPolygons,
                 hintNeedleId, hoverLatLng, visitedNeedleId, pending, lastDrop>>

\* Variant: erasing leaves the camera where it is.
onClearNeedles_KeepCamera ==
  /\ Len(placements) >= 1
  /\ placedModels' = NoModels
  /\ placements' = <<>>
  /\ movingNeedleId' = Null
  /\ hoveredNeedleId' = Null
  /\ panelNeedleId' = Null
  /\ visitMode' = FALSE
  /\ isPlacing' = TRUE
  /\ UNCHANGED <<haptic, mapDrag, api, probe, photoVars, loadVars, seattleNeighborhoodPolygons, nextPlacementId,
                 hintNeedleId, hoverLatLng, visitedNeedleId, camera, pending, lastDrop>>

\* The Erase Needles button (disabled while nothing is placed).
onClearNeedles ==
  /\ Len(placements) >= 1
  /\ placedModels' = NoModels
  /\ placements' = <<>>
  /\ movingNeedleId' = Null
  /\ hoveredNeedleId' = Null
  /\ panelNeedleId' = Null
  /\ visitMode' = FALSE
  /\ isPlacing' = TRUE
  /\ camera' = IF mapLibReady THEN DefaultCamera ELSE camera
  /\ UNCHANGED <<haptic, mapDrag, api, probe, photoVars, loadVars, seattleNeighborhoodPolygons, nextPlacementId,
                 hintNeedleId, hoverLatLng, visitedNeedleId, pending, lastDrop>>

\* The Place Needle button.
onPlaceNeedle ==
  /\ ~((Len(placements) < 1 /\ ~isPlacing) \/ movingNeedleId # Null)
  /\ panelNeedleId' = Null
  /\ isPlacing' = TRUE
  /\ UNCHANGED <<haptic, mapDrag, api, probe, photoVars, loadVars, seattleNeighborhoodPolygons, needleVars, movingNeedleId,
                 visitMode, hoverVars, visitedNeedleId, camera, pending, lastDrop>>

(***************************************************************************)
(* Take Photo: the polaroid dialog and the image-generation request.       *)
(***************************************************************************)

MaxPhotos == 3

\* Number(x.toFixed(5)) on micro-degrees: the nearest multiple of 10.
ToFixed5(x) ==
  IF x >= 0 THEN ((x + 5) \div 10) * 10 ELSE -(((-x + 5) \div 10) * 10)

\* What the placeholder render gives: the Three.js image, the canvas fallback
\* when that throws, or nothing when the fallback has no 2d context either.
PlaceholderOutcomes == {"placeholder", "fallback", "none"}

\* How the image request ends when it is not aborted: an OK response with an
\* image, an OK response without one (or an unreadable body), a non-OK
\* response, or a rejected fetch.
PhotoResponses == {"image", "noImage", "notOk", "networkError"}

\* The Take Photo button, up to `await fetch`.  (The shutter sound is not
\* modelled.)
onTakePhoto(placeholder) ==
  /\ visitMode
  /\ ~isDeveloping
  /\ nextPhotoId <= MaxPhotos
  /\ LET needleId == IF visitedNeedleId # Null THEN visitedNeedleId ELSE panelNeedleId
         isOriginal == (needleId = ORIGINAL_NEEDLE_ID)
         k == IF isOriginal THEN 0 ELSE FindIndex(placements, needleId)
         visitedLat == IF k # 0 THEN placements[k].lat ELSE SEATTLE_CENTER.lat
         visitedLng == IF k # 0 THEN placements[k].lng ELSE SEATTLE_CENTER.lng
         needleNumber == IF isOriginal THEN 1 ELSE (k - 1) + 2
     IN /\ polaroid' = [id |-> nextPhotoId, image |-> placeholder, needleId |-> needleId,
                        needleNumber |-> needleNumber, lat |-> ToFixed5(visitedLat),
                        lng |-> ToFixed5(visitedLng), status |-> "developing"]
        /\ photoRequests' = Append(photoRequests, [id |-> nextPhotoId, aborted |-> FALSE])
  /\ photoFlash' = TRUE
  /\ isDeveloping' = TRUE
  /\ polaroidAbort' = nextPhotoId
  /\ nextPhotoId' = nextPhotoId + 1
  /\ UNCHANGED <<haptic, mapDrag, api, probe, loadVars, seattleNeighborhoodPolygons, needleVars, modeVars, hoverVars,
                 visitVars, camera, pending, lastDrop>>

\* The 150 ms timer of Take Photo.
photoFlashTimeout ==
  /\ photoFlash
  /\ photoFlash' = FALSE
  /\ UNCHANGED <<haptic, mapDrag, api, probe, loadVars, seattleNeighborhoodPolygons, needleVars, modeVars, hoverVars,
                 visitVars, camera, pending, lastDrop, polaroid, isDeveloping,
                 polaroidAbort, photoRequests, nextPhotoId>>

\* Variant: the response is written to whatever polaroid is on display.
onTakePhotoResume_NoIdGuard(i, resp) ==
  /\ i \in 1..Len(photoRequests)
  /\ LET req == photoRequests[i]
     IN /\ polaroid' =
             IF req.aborted THEN polaroid
             ELSE IF resp = "image"
             THEN [polaroid EXCEPT !.image = "ai", !.status = "ready"]
             ELSE [polaroid EXCEPT !.status = "failed"]
        /\ polaroidAbort' = IF polaroidAbort = req.id THEN Null ELSE polaroidAbort
  /\ isDeveloping' = FALSE
  /\ photoRequests' = RemoveAt(photoRequests, i)
  /\ UNCHANGED <<haptic, mapDrag, api, probe, loadVars, seattleNeighborhoodPolygons, needleVars, modeVars, hoverVars,
                 visitVars, camera, pending, lastDrop, photoFlash, nextPhotoId>>

\* The rest of onTakePhoto, once the request i has settled: an aborted request
\* rejects with AbortError whatever the server did.
onTakePhotoResume(i, resp) ==
  /\ i \in 1..Len(photoRequests)
  /\ LET req == photoRequests[i]
         mine == polaroid # NoPolaroid /\ polaroid.id = req.id
     IN /\ polaroid' =
             IF req.aborted \/ ~mine THEN polaroid
             ELSE IF resp = "image"
             THEN [polaroid EXCEPT !.image = "ai", !.status = "ready"]
             ELSE [polaroid EXCEPT !.status = "failed"]
        /\ polaroidAbort' = IF polaroidAbort = req.id THEN Null ELSE polaroidAbort
  /\ isDeveloping' = FALSE
  /\ photoRequests' = RemoveAt(photoRequests, i)
  /\ UNCHANGED <<haptic, mapDrag, api, probe, loadVars, seattleNeighborhoodPolygons, needleVars, modeVars, hoverVars,
                 visitVars, camera, pending, lastDrop, photoFlash, nextPhotoId>>

\* The close button, the Delete button and the backdrop of the dialog.
dismissPolaroid ==
  /\ polaroid # NoPolaroid
  /\ photoRequests' =
       [k \in 1..Len(photoRequests) |->
          IF photoRequests[k].id = polaroidAbort
          THEN [photoRequests[k] EXCEPT !.aborted = TRUE]
          ELSE photoRequests[k]]
  /\ polaroidAbort' = Null
  /\ polaroid' = NoPolaroid
  /\ isDeveloping' = FALSE
  /\ UNCHANGED <<haptic, mapDrag, api, probe, loadVars, seattleNeighborhoodPolygons, needleVars, modeVars, hoverVars,
                 visitVars, camera, pending, lastDrop, photoFlash, nextPhotoId>>

NeedleIds == 0..(MaxId - 1)

\* Event inputs.  An off-surface event returns before its pixel is projected,
\* so it carries no position.
PointerInputs ==
  { <<TRUE, overMenu, pr[1], pr[2]>> : overMenu \in BOOLEAN, pr \in ProjectedPairs }
    \cup { <<FALSE, overMenu, NoLatLng, NoLatLng>> : overMenu \in BOOLEAN }

ClickInputs ==
  { <<TRUE, pr[1], pr[2], dom>> : pr \in ProjectedPairs, dom \in {Null} \cup NeedleIds }
    \cup { <<FALSE, NoLatLng, NoLatLng, Null>> }

Next ==
  \/ MapLibraryLoaded
  \/ MapLibraryFailed
  \/ NeighborhoodsLoaded
  \/ onSteady
  \/ CreateOverlay
  \/ \E ev \in PointerInputs : onPointerMove(ev[1], ev[2], ev[3], ev[4])
  \/ onPointerLeave
  \/ \E ev \in ClickInputs : onClick(ev[1], ev[2], ev[3], ev[4])
  \/ \E i \in 1..MaxPending, resp \in ElevationResponses : onClickResume(i, resp)
  \/ \E id \in NeedleIds : onRemoveNeedle(id)
  \/ \E id \in NeedleIds : onMoveNeedle(id)
  \/ \E id \in NeedleIds : onVisitNeedle(id)
  \/ onExitVisit
  \/ onClearNeedles
  \/ onPlaceNeedle

Spec == Init /\ [][Next]_vars

(***************************************************************************)
(* Hit-testing runs: the scene is loaded and idle with one or two needles  *)
(* placed, and only the pointer acts.                                      *)
(***************************************************************************)

\* The placement lists after dropping needles on A and B, in either order.
HitPlacements ==
  { <<Landmark(1, HitNeedleA)>>,
    <<Landmark(1, HitNeedleB)>>,
    <<Landmark(1, HitNeedleA), Landmark(2, HitNeedleB)>>,
    <<Landmark(1, HitNeedleB), Landmark(2, HitNeedleA)>> }

HitInit ==
  /\ mapLibReady = TRUE
  /\ mapSteady = TRUE
  /\ overlayReady = TRUE
  /\ mapError = NoError
  /\ seattleNeighborhoodPolygons = NEIGHBORHOODS_GEOJSON
  /\ placements \in HitPlacements
  /\ isPlacing = FALSE
  /\ movingNeedleId = Null
  /\ visitMode = FALSE
  /\ hoveredNeedleId = Null
  /\ hintNeedleId = Null
  /\ panelNeedleId = Null
  /\ visitedNeedleId = Null
  /\ hoverLatLng = NoLatLng
  /\ nextPlacementId = Len(placements) + 1
  /\ placedModels = SyncModels(NoModels, placements)
  /\ originalNeedle = ORIGINAL_NEEDLE_POSITION
  /\ camera = DefaultCamera
  /\ pending = <<>>
  /\ lastDrop = [kind |-> "place", lookup |-> "failed",
                 sound |-> DropSound(seattleNeighborhoodPolygons,
                                     placements[Len(placements)], NoElevation)]
  /\ polaroid = NoPolaroid
  /\ isDeveloping = FALSE
  /\ photoFlash = FALSE
  /\ polaroidAbort = Null
  /\ photoRequests = <<>>
  /\ nextPhotoId = 1
  /\ probe = NoProbe
  /\ api = NoApiCall
  /\ mapDrag = "idle"
  /\ haptic = NoHaptic

\* A pointer move over the map at a projected position, a pointer move over
\* chrome that is not the menu, and the pointer leaving the wrapper.
HitPointerOnMap == \E p \in HitPointerPoints : onPointerMove(TRUE, FALSE, p, p)
HitPointerOnChrome == onPointerMove(FALSE, FALSE, NoLatLng, NoLatLng)

HitNext ==
  \/ HitPointerOnMap
  \/ HitPointerOnChrome
  \/ onPointerLeave

HitSpec == HitInit /\ [][HitNext]_vars

(***************************************************************************)
(* Valuation runs: the scene is loaded with nothing placed and the pointer *)
(* somewhere over the map; the visitor moves the pointer, drops one needle *)
(* and presses Place Needle again, so the live estimate of the pointer     *)
(* position is shown next to the stored figures of the placed needle.      *)
(***************************************************************************)

\* The live estimate of the exhibit panel: getValuationAtLatLng at the pointer
\* position while placing, otherwise null (a record of the same shape).
placingValuation ==
  IF isPlacing /\ hoverLatLng # NoLatLng
  THEN ValuationMemo[LatLngKey(hoverLatLng)].valuation
  ELSE [ratePerSqFt |-> 0, landValue |-> 0, neighborhoodLabel |-> <<>>]

ValInit ==
  /\ mapLibReady = TRUE
  /\ mapSteady = TRUE
  /\ overlayReady = TRUE
  /\ mapError = NoError
  /\ seattleNeighborhoodPolygons = NEIGHBORHOODS_GEOJSON
  /\ placements = <<>>
  /\ isPlacing = TRUE
  /\ movingNeedleId = Null
  /\ visitMode = FALSE
  /\ hoveredNeedleId = Null
  /\ hintNeedleId = Null
  /\ panelNeedleId = Null
  /\ visitedNeedleId = Null
  /\ hoverLatLng \in ValPoints
  /\ nextPlacementId = 1
  /\ placedModels = NoModels
  /\ originalNeedle = ORIGINAL_NEEDLE_POSITION
  /\ camera = DefaultCamera
  /\ pending = <<>>
  /\ lastDrop = NoDrop
  /\ polaroid = NoPolaroid
  /\ isDeveloping = FALSE
  /\ photoFlash = FALSE
  /\ polaroidAbort = Null
  /\ photoRequests = <<>>
  /\ nextPhotoId = 1
  /\ probe = NoProbe
  /\ api = NoApiCall
  /\ mapDrag = "idle"
  /\ haptic = NoHaptic

\* Pointer moves and a first drop over the valuation positions, a second
\* drop on the partner of a first needle that stands on a paired position
\* (the elevation lookup answers 50 m), and the Place Needle button.
ValNext ==
  \/ \E p \in ValPoints : onPointerMove(TRUE, FALSE, p, p)
  \/ \E p \in ValPoints : nextPlacementId = 1 /\ pending = <<>> /\ onClick(TRUE, p, p, Null)
  \/ \E pr \in TourPairs :
       /\ nextPlacementId = 2
       /\ pending = <<>>
       /\ LatLngKey(placements[1]) = LatLngKey(pr[1])
       /\ onClick(TRUE, pr[2], pr[2], Null)
  \/ onClickResume(1, [kind |-> "ok", elevation |-> 50])
  \/ onPlaceNeedle

ValSpec == ValInit /\ [][ValNext]_vars



(***************************************************************************)
(* The interaction modes of the specification, read off the flags.         *)
(***************************************************************************)

Idle == ~isPlacing /\ movingNeedleId = Null /\ ~visitMode
Placing == isPlacing /\ movingNeedleId = Null
Moving == movingNeedleId # Null
Visiting == visitMode

ModesHolding ==
  (IF Idle THEN {"Idle"} ELSE {}) \cup (IF Placing THEN {"Placing"} ELSE {})
    \cup (IF Moving THEN {"Moving"} ELSE {}) \cup (IF Visiting THEN {"Visiting"} ELSE {})

\* Steps of the pointer-move and click handlers, over all their inputs.
PointerMoveStep == \E ev \in PointerInputs : onPointerMove(ev[1], ev[2], ev[3], ev[4])
ClickStep == \E ev \in ClickInputs : onClick(ev[1], ev[2], ev[3], ev[4])

\* Landmark l carries position p and the valuation computed for p.
HasDataOf(l, p) ==
  /\ l.lat = p.lat
  /\ l.lng = p.lng
  /\ l.altitude = p.altitude
  /\ l.ratePerSqFt = ValuationMemo[LatLngKey(p)].valuation.ratePerSqFt
  /\ l.landValue = ValuationMemo[LatLngKey(p)].valuation.landValue
  /\ l.neighborhoodLabel = ValuationMemo[LatLngKey(p)].valuation.neighborhoodLabel
  /\ l.tourismRevenue = ValuationMemo[LatLngKey(p)].tourismRevenue

\* The step adds exactly one landmark, for p, behind the existing ones.
AppendedFor(p) ==
  /\ Len(placements') = Len(placements) + 1
  /\ SubSeq(placements', 1, Len(placements)) = placements
  /\ HasDataOf(placements'[Len(placements')], p)
  /\ placements'[Len(placements')].id \notin Ids(placements)

\* The step rewrites landmark id for p and nothing else.
MovedFor(id, p) ==
  /\ Len(placements') = Len(placements)
  /\ \A k \in 1..Len(placements) :
       IF placements[k].id = id
       THEN placements'[k].id = id /\ HasDataOf(placements'[k], p)
       ELSE placements'[k] = placements[k]

FailedResponses == { r \in ElevationResponses : r.kind # "ok" }

(***************************************************************************)
(* C1: in every reachable state exactly one interaction mode holds, and    *)
(* neither isPlacing nor a move target is set while visitMode is set.      *)
(***************************************************************************)
C1_ExactlyOneMode ==
  /\ Cardinality(ModesHolding) = 1
  /\ visitMode => (~isPlacing /\ movingNeedleId = Null)

(***************************************************************************)
(* C2: a confirming click at p received in Placing (no move target) adds   *)
(* exactly one new landmark with position p and the valuation of p, and    *)
(* the mode is Idle afterwards.  Stated on the step where the handler of   *)
(* such a click finishes.                                                  *)
(***************************************************************************)
C2_PlacingClickAddsLandmark ==
  [][\A i \in 1..MaxPending, resp \in ElevationResponses :
       ( /\ i <= Len(pending)
         /\ pending[i].kind = "place"
         /\ Len(pending') < Len(pending)
         /\ onClickResume(i, resp) )
       => (AppendedFor(pending[i].at) /\ Idle')]_vars

(***************************************************************************)
(* C3: when the elevation lookup throws or gives no number, the placement  *)
(* or move completes with the landmark data of p all the same, water is    *)
(* decided by the polygon / bounding-box test alone, and no error state is *)
(* entered.                                                                *)
(***************************************************************************)
C3_LookupFailureStillCompletes ==
  [][\A i \in 1..MaxPending, resp \in FailedResponses :
       (i <= Len(pending) /\ Len(pending') < Len(pending) /\ onClickResume(i, resp))
       => /\ IF pending[i].kind = "place"
             THEN AppendedFor(pending[i].at)
             ELSE MovedFor(pending[i].id, pending[i].at)
          /\ pending' = RemoveAt(pending, i)
          /\ ~isPlacing'
          /\ mapError' = mapError
          /\ lastDrop'.sound \in {"splash", "crunch"} =>
               ( lastDrop'.sound = "splash"
                 <=> ( /\ ~isInSeattleNeighborhood(seattleNeighborhoodPolygons,
                                                   pending[i].at.lat, pending[i].at.lng)
                       /\ isInWaterBounds(pending[i].at.lat, pending[i].at.lng) ) )]_vars

C3_PlacedAfterFailedLookup ==
  /\ lastDrop = [kind |-> "place", lookup |-> "failed", sound |-> "crunch"]
  /\ Len(placements) >= 1
  /\ placements[Len(placements)].lat = FarNorth.lat
  /\ ~isPlacing
  /\ mapError = NoError

(***************************************************************************)
(* C4: a valid on-surface click received in Placing creates its landmark   *)
(* and returns to Idle without waiting on the elevation lookup: the click  *)
(* handler runs to completion for that event.                              *)
(***************************************************************************)
C4_PlacingClickCompletesWithoutLookup ==
  [][\A ev \in ClickInputs :
       ( /\ ev[1]
         /\ ClickAt(ev[2], ev[3]) # NoLatLng
         /\ Placing
         /\ ~visitMode
         /\ onClick(ev[1], ev[2], ev[3], ev[4]) )
       => (AppendedFor(ClickAt(ev[2], ev[3])) /\ Idle')]_vars

(***************************************************************************)
(* C5: a confirming click at p received in Moving(id) rewrites only        *)
(* landmark id's position and valuation for p; its id, the number and      *)
(* order of landmarks and every other landmark stay, and afterwards the    *)
(* mode is Idle with no move target.  Stated on the step where the handler *)
(* of such a click finishes.                                               *)
(***************************************************************************)
C5_MoveClickRewritesOnlyTarget ==
  [][\A i \in 1..MaxPending, resp \in ElevationResponses :
       ( /\ i <= Len(pending)
         /\ pending[i].kind = "move"
         /\ Len(pending') < Len(pending)
         /\ onClickResume(i, resp) )
       => /\ MovedFor(pending[i].id, pending[i].at)
          /\ movingNeedleId' = Null
          /\ Idle']_vars

(***************************************************************************)
(* C6: the original landmark (id 0) is never removed and never changes     *)
(* position: once created its model stays at the reference point, it is    *)
(* never a placement nor a move target, and the action menu opened for it  *)
(* offers neither Move nor Remove.                                         *)
(***************************************************************************)
C6_OriginalIsPermanent ==
  /\ [](/\ overlayReady => originalNeedle = ORIGINAL_NEEDLE_POSITION
        /\ ORIGINAL_NEEDLE_ID \notin Ids(placements)
        /\ movingNeedleId # ORIGINAL_NEEDLE_ID
        /\ (MenuDisplayed /\ hoveredNeedleId = ORIGINAL_NEEDLE_ID)
             => MenuItems(hoveredNeedleId) \cap {"Move", "Remove"} = {})
  /\ [][originalNeedle # NoLatLng => originalNeedle' = originalNeedle]_vars

C6_OriginalMenuOpen ==
  /\ MenuDisplayed
  /\ hoveredNeedleId = ORIGINAL_NEEDLE_ID
  /\ Len(placements) = 2
  /\ originalNeedle = ORIGINAL_NEEDLE_POSITION

(***************************************************************************)
(* C7: every new landmark gets an id above every id handed out before;     *)
(* live ids are pairwise distinct, never 0, and an id is never handed out  *)
(* again after Remove or Erase Needles.                                    *)
(***************************************************************************)
C7_IdsIncreaseAndStayUnique ==
  /\ [](/\ Cardinality(Ids(placements)) = Len(placements)
        /\ \A id \in Ids(placements) : id # ORIGINAL_NEEDLE_ID /\ id < nextPlacementId)
  /\ [][/\ nextPlacementId' >= nextPlacementId
        /\ \A id \in Ids(placements') \ Ids(placements) :
             id >= nextPlacementId /\ id < nextPlacementId']_vars

C7_SecondIdAfterFirstIsGone ==
  /\ Len(placements) = 1
  /\ placements[1].id = 2
  /\ nextPlacementId = 3

(***************************************************************************)
(* C8: right after Erase Needles no placed landmark (and no placed model)  *)
(* remains, the original is still there, and the camera is at center       *)
(* (47.6205, -122.3493), tilt 67, heading 230, range 900.                  *)
(***************************************************************************)
C8_EraseLeavesOriginalAtDefaultCamera ==
  [][onClearNeedles
       => /\ placements' = <<>>
          /\ placedModels' = NoModels
          /\ originalNeedle' = [lat |-> 47620500, lng |-> -122349300, altitude |-> 0]
          /\ camera' = [center |-> [lat |-> 47620500, lng |-> -122349300, altitude |-> 0],
                        tilt |-> 67, heading |-> 230, range |-> 900]]_vars

\* visitedNeedleId outlives visitMode only when the erase came during a visit.
C8_ErasedDuringVisit ==
  /\ placements = <<>>
  /\ ~visitMode
  /\ visitedNeedleId # Null
  /\ camera = [center |-> [lat |-> 47620500, lng |-> -122349300, altitude |-> 0],
               tilt |-> 67, heading |-> 230, range |-> 900]

(***************************************************************************)
(* C9: hover / hint computation runs only in Idle: while the mode is       *)
(* Placing, Moving or Visiting no pointer-move or click step assigns a     *)
(* landmark to hoveredNeedleId or hintNeedleId, and neither the action     *)
(* menu nor the hint indicator is shown.                                   *)
(***************************************************************************)
C9_HoverAndHintOnlyInIdle ==
  /\ [](~Idle => (~showMenu /\ ~MenuDisplayed /\ ~showHint))
  /\ [][( /\ ~Idle
          /\ hoveredNeedleId' # hoveredNeedleId \/ hintNeedleId' # hintNeedleId
          /\ PointerMoveStep \/ ClickStep )
        => /\ hoveredNeedleId' \in {hoveredNeedleId, Null}
           /\ hintNeedleId' \in {hintNeedleId, Null}]_vars

\* A hover target left over from Idle, with the pointer moved on in Placing.
C9_StaleHoverSuppressed ==
  /\ Placing
  /\ hoveredNeedleId = ORIGINAL_NEEDLE_ID
  /\ hintNeedleId = Null
  /\ hoverLatLng = FarNorth
  /\ FarNorth.lat \notin { placements[k].lat : k \in 1..Len(placements) }

(***************************************************************************)
(* C10: hoveredNeedleId and hintNeedleId are never both non-null: once a   *)
(* pointer event has produced a hover target the hint is null.             *)
(***************************************************************************)
C10_HoverExcludesHint ==
  ~(hoveredNeedleId # Null /\ hintNeedleId # Null)


(***************************************************************************)
(* Camera runs: every handler of the scene, the photo dialog included,     *)
(* with the map events at one position and one lookup outcome.             *)
(***************************************************************************)

CamPointerInputs ==
  { ev \in PointerInputs : ev[3] \in {NearNorth, NoLatLng} /\ ev[4] \in {NearNorth, NoLatLng} }

CamClickInputs ==
  { ev \in ClickInputs : ev[2] \in {NearNorth, NoLatLng} /\ ev[3] \in {NearNorth, NoLatLng} }

CamElevationResponses == { r \in ElevationResponses : r.kind = "ok" /\ r.elevation = 50 }

CamPhotoResponses == {"image", "notOk"}

\* One photo per session in these runs, with its placeholder rendered.
CamTakePhoto == nextPhotoId = 1 /\ onTakePhoto("placeholder")

\* A pose the visitor reaches by dragging, tilting and zooming the 3D map.
UserCamera ==
  [center |-> [lat |-> 47630000, lng |-> -122340000, altitude |-> 0],
   tilt |-> 45, heading |-> 10, range |-> 1500]

\* The map element moves its own camera on the visitor's gestures.
onCameraGesture ==
  /\ mapLibReady
  /\ camera' = UserCamera
  /\ UNCHANGED <<haptic, mapDrag, api, probe, loadVars, seattleNeighborhoodPolygons, needleVars, modeVars, hoverVars,
                 visitVars, pending, lastDrop, photoVars>>

CamNext ==
  \/ MapLibraryLoaded
  \/ MapLibraryFailed
  \/ NeighborhoodsLoaded
  \/ onSteady
  \/ CreateOverlay
  \/ \E ev \in CamPointerInputs : onPointerMove(ev[1], ev[2], ev[3], ev[4])
  \/ onPointerLeave
  \/ \E ev \in CamClickInputs : onClick(ev[1], ev[2], ev[3], ev[4])
  \/ \E i \in 1..MaxPending, resp \in CamElevationResponses : onClickResume(i, resp)
  \/ \E id \in NeedleIds : onRemoveNeedle(id)
  \/ \E id \in NeedleIds : onMoveNeedle(id)
  \/ \E id \in NeedleIds : onVisitNeedle(id)
  \/ onExitVisit
  \/ onClearNeedles
  \/ onPlaceNeedle
  \/ CamTakePhoto
  \/ onCameraGesture
  \/ photoFlashTimeout
  \/ \E i \in 1..MaxPhotos, resp \in CamPhotoResponses : onTakePhotoResume(i, resp)
  \/ dismissPolaroid

CamSpec == Init /\ [][CamNext]_vars

(***************************************************************************)
(* Photo runs: the visitor drops needles, visits one and takes photos;     *)
(* every placeholder outcome and every way the image request can end, with *)
(* the responses arriving in any order.                                    *)
(***************************************************************************)

PhotoNext ==
  \/ MapLibraryLoaded
  \/ NeighborhoodsLoaded
  \/ onSteady
  \/ CreateOverlay
  \/ \E ev \in CamPointerInputs : onPointerMove(ev[1], ev[2], ev[3], ev[4])
  \/ \E ev \in CamClickInputs : onClick(ev[1], ev[2], ev[3], ev[4])
  \/ \E i \in 1..MaxPending, resp \in CamElevationResponses : onClickResume(i, resp)
  \/ \E id \in NeedleIds : onVisitNeedle(id)
  \/ onExitVisit
  \/ \E placeholder \in PlaceholderOutcomes : onTakePhoto(placeholder)
  \/ photoFlashTimeout
  \/ \E i \in 1..MaxPhotos, resp \in PhotoResponses : onTakePhotoResume(i, resp)
  \/ dismissPolaroid

PhotoSpec == Init /\ [][PhotoNext]_vars

(***************************************************************************)
(* Drag runs: the visitor pans the map while needles are being dropped.    *)
(* The map element raises dragstart and dragend; "ended" lasts for the     *)
(* 250 ms after dragend.                                                   *)
(***************************************************************************)

onDragStart ==
  /\ mapLibReady
  /\ mapDrag # "dragging"
  /\ mapDrag' = "dragging"
  /\ UNCHANGED <<haptic, api, probe, photoVars, loadVars, seattleNeighborhoodPolygons, needleVars,
                 modeVars, hoverVars, visitVars, camera, pending, lastDrop>>

\* The pan has moved the camera.
onDragEnd ==
  /\ mapDrag = "dragging"
  /\ mapDrag' = "ended"
  /\ camera' = UserCamera
  /\ UNCHANGED <<haptic, api, probe, photoVars, loadVars, seattleNeighborhoodPolygons, needleVars,
                 modeVars, hoverVars, visitVars, pending, lastDrop>>

\* 250 ms have passed since dragend.
onDragSettled ==
  /\ mapDrag = "ended"
  /\ mapDrag' = "idle"
  /\ UNCHANGED <<haptic, api, probe, photoVars, loadVars, seattleNeighborhoodPolygons, needleVars,
                 modeVars, hoverVars, visitVars, camera, pending, lastDrop>>

DragNext ==
  \/ MapLibraryLoaded
  \/ NeighborhoodsLoaded
  \/ onSteady
  \/ CreateOverlay
  \/ \E ev \in CamPointerInputs : onPointerMove(ev[1], ev[2], ev[3], ev[4])
  \/ \E ev \in CamClickInputs : onClick(ev[1], ev[2], ev[3], ev[4])
  \/ \E i \in 1..MaxPending, resp \in CamElevationResponses : onClickResume(i, resp)
  \/ onPlaceNeedle
  \/ onDragStart
  \/ onDragEnd
  \/ onDragSettled

DragSpec == Init /\ [][DragNext]_vars

(***************************************************************************)
(* Projector runs: one pointer pixel is converted to a position under a    *)
(* camera pose and an outcome of the overlay projection, and a position    *)
(* is converted back to a pixel for an indicator.                          *)
(***************************************************************************)

\* Poses (the default view, a needle view, the visitor's own views, poses
\* with one field missing), pointer pixels inside, on and outside the
\* wrapper's border, and the outcomes of the overlay projection.
ProjInit ==
  /\ mapLibReady = TRUE
  /\ mapSteady = TRUE
  /\ overlayReady = TRUE
  /\ mapError = NoError
  /\ seattleNeighborhoodPolygons = NEIGHBORHOODS_GEOJSON
  /\ placements = <<>>
  /\ isPlacing = TRUE
  /\ movingNeedleId = Null
  /\ visitMode = FALSE
  /\ hoveredNeedleId = Null
  /\ hintNeedleId = Null
  /\ panelNeedleId = Null
  /\ visitedNeedleId = Null
  /\ hoverLatLng = NoLatLng
  /\ nextPlacementId = 1
  /\ placedModels = NoModels
  /\ originalNeedle = ORIGINAL_NEEDLE_POSITION
  /\ camera = DefaultCamera
  /\ pending = <<>>
  /\ lastDrop = NoDrop
  /\ polaroid = NoPolaroid
  /\ isDeveloping = FALSE
  /\ photoFlash = FALSE
  /\ polaroidAbort = Null
  /\ photoRequests = <<>>
  /\ nextPhotoId = 1
  /\ api = NoApiCall
  /\ mapDrag = "idle"
  /\ haptic = NoHaptic
  /\ \E pose \in { DefaultCamera, UserCamera,
                   [DefaultCamera EXCEPT !.tilt = VISIT_TILT, !.heading = 10, !.range = VISIT_RANGE_M],
                   [DefaultCamera EXCEPT !.tilt = 0, !.heading = 0],
                   [DefaultCamera EXCEPT !.tilt = 60, !.heading = 90],
                   [DefaultCamera EXCEPT !.tilt = 85, !.heading = 0],
                   [DefaultCamera EXCEPT !.center = NoLatLng],
                   [DefaultCamera EXCEPT !.range = Null],
                   [DefaultCamera EXCEPT !.tilt = Null],
                   [DefaultCamera EXCEPT !.heading = Null] },
        x \in {-1, 0, 1, 200, 400, 799, 800, 801},
        y \in {-1, 0, 150, 300, 600, 601},
        engine \in {"ok", "null", "throws", "detached"} :
       probe = [NoProbe EXCEPT !.pose = pose, !.x = x, !.y = y, !.engine = engine]

\* The conversion at the head of onPointerMove and onClick: the overlay
\* projection first (its answer, when it gives one, is some position of the
\* map), the approximation when that returns null.
screenToGeo ==
  /\ probe.geoVia = "none"
  /\ \E exact \in {NearNorth} :
       LET pos == wrapperPixelToLatLngWithProjection(probe.engine, ViewportRect,
                                                     probe.x, probe.y, exact)
       IN probe' = IF pos # NoLatLng
                   THEN [probe EXCEPT !.geo = pos, !.geoVia = "exact"]
                   ELSE [probe EXCEPT !.geo = pixelToApproxLatLng(probe.pose, ViewportRect,
                                                                  probe.x, probe.y),
                                      !.geoVia = "approximate"]
  /\ UNCHANGED <<haptic, mapDrag, api, loadVars, seattleNeighborhoodPolygons, needleVars, modeVars, hoverVars,
                 visitVars, camera, pending, lastDrop, photoVars>>

\* The pixel of an indicator for the converted position (null when the
\* conversion gave none) or for the original needle: the needle anchors and the original's hint go through
\* latLngToWrapperPixelWithProjection, the hint of a placed needle, the
\* press ring and the poof through latLngToContainerPixel.
geoToScreen(caller) ==
  /\ probe.geoVia # "none"
  /\ probe.xyVia = "none"
  /\ \E latLng \in {probe.geo, SEATTLE_CENTER},
        exactXY \in {[x |-> 4000, y |-> 3000]} :
       probe' = IF caller = "needleAnchors"
                THEN [probe EXCEPT
                        !.caller = caller, !.anchored = latLng,
                        !.xy = latLngToWrapperPixelWithProjection(probe.pose, ViewportRect,
                                                                  latLng, probe.engine, exactXY),
                        !.xyVia = IF probe.engine = "ok" THEN "exact"
                                  ELSE IF probe.engine = "null" THEN "failed"
                                  ELSE "approximate"]
                ELSE [probe EXCEPT
                        !.caller = caller, !.anchored = latLng,
                        !.xy = latLngToContainerPixel(probe.pose, ViewportRect, latLng),
                        !.xyVia = "approximate"]
  /\ UNCHANGED <<haptic, mapDrag, api, loadVars, seattleNeighborhoodPolygons, needleVars, modeVars, hoverVars,
                 visitVars, camera, pending, lastDrop, photoVars>>

ProjNext ==
  \/ screenToGeo
  \/ \E caller \in {"needleAnchors", "placedHint", "press", "poof"} : geoToScreen(caller)

ProjSpec == ProjInit /\ [][ProjNext]_vars

(***************************************************************************)
(* The serverless function POST /api/generate-polaroid.                    *)
(***************************************************************************)

\* The one-pixel PNG the file declares next to its header comment.
PLACEHOLDER_DATA_URL == "data:image/png;base64,placeholder"

\* The scene description: the many-needle wording when visibleNeedles lists
\* more than two needles.
buildPrompt(metadata) ==
  IF metadata.visibleNeedles > 2 THEN "manyNeedles" ELSE "twoNeedles"

\* The exported handler, from the request to the response it sends: 405 for
\* another method, 400 for a string body that does not parse, no response
\* for the string "null" (JSON.parse gives null, which `|| {}` does not
\* cover in the string branch of the conditional), the generated
\* image when the OpenAI key is set and the image API returns b64_json, and
\* 503 in every other case (the key missing, only the Replicate token set,
\* a reply without an image, a failed call).
handler ==
  /\ api.status = 0
  /\ api.method # "none"
  /\ api' =
       IF api.method # "POST"
       THEN [api EXCEPT !.status = 405, !.reply = "error: Method not allowed"]
       ELSE IF api.body = "garbage"
       THEN [api EXCEPT !.status = 400, !.reply = "error: Invalid JSON body"]
       ELSE IF api.body = "jsonNull"
       THEN \* metadata is null: `metadata.stylePreset` throws, nothing is sent
            [api EXCEPT !.status = Null, !.reply = "uncaught TypeError"]
       ELSE IF api.OPENAI_API_KEY /\ api.upstream = "b64_json"
       THEN [api EXCEPT !.prompt = buildPrompt(api), !.status = 200,
                        !.reply = "dataUrl: generated"]
       ELSE IF api.OPENAI_API_KEY
       THEN [api EXCEPT !.prompt = buildPrompt(api), !.status = 503,
                        !.reply = "error: Image generation not configured"]
       ELSE [api EXCEPT !.status = 503, !.reply = "error: Image generation not configured"]
  /\ UNCHANGED <<haptic, mapDrag, probe, loadVars, seattleNeighborhoodPolygons, needleVars, modeVars, hoverVars,
                 visitVars, camera, pending, lastDrop, photoVars>>

\* A request (its method, its body as an object, a JSON string of an object,
\* the JSON string "null", a string that does not parse, or absent, and the
\* number of needles listed in it),
\* the environment of the deployment, and what the image API would answer.
ApiInit ==
  /\ mapLibReady = FALSE
  /\ mapSteady = FALSE
  /\ overlayReady = FALSE
  /\ mapError = NoError
  /\ seattleNeighborhoodPolygons = <<>>
  /\ placements = <<>>
  /\ isPlacing = TRUE
  /\ movingNeedleId = Null
  /\ visitMode = FALSE
  /\ hoveredNeedleId = Null
  /\ hintNeedleId = Null
  /\ panelNeedleId = Null
  /\ visitedNeedleId = Null
  /\ hoverLatLng = NoLatLng
  /\ nextPlacementId = 1
  /\ placedModels = NoModels
  /\ originalNeedle = NoLatLng
  /\ camera = UnsetCamera
  /\ pending = <<>>
  /\ lastDrop = NoDrop
  /\ polaroid = NoPolaroid
  /\ isDeveloping = FALSE
  /\ photoFlash = FALSE
  /\ polaroidAbort = Null
  /\ photoRequests = <<>>
  /\ nextPhotoId = 1
  /\ probe = NoProbe
  /\ mapDrag = "idle"
  /\ haptic = NoHaptic
  /\ \E method \in {"GET", "POST"},
        body \in {"object", "json", "jsonNull", "garbage", "absent"},
        openai \in BOOLEAN, replicate \in BOOLEAN,
        needles \in {1, 2, 3},
        upstream \in {"b64_json", "noImage", "notJson", "networkError"} :
       api = [NoApiCall EXCEPT !.method = method, !.body = body,
                               !.OPENAI_API_KEY = openai, !.REPLICATE_API_TOKEN = replicate,
                               !.visibleNeedles = needles, !.upstream = upstream]

ApiSpec == ApiInit /\ [][handler]_vars

(***************************************************************************)
(* Haptic feedback (App.jsx): hapticTap and its cooldown.                  *)
(***************************************************************************)

COOLDOWN_MS == 120

MaxTaps == 3

\* Variant: every call on a mobile device vibrates.
hapticTap_NoCooldown(dt) ==
  /\ haptic.calls < MaxTaps
  /\ LET now == haptic.now + dt
         called == [haptic EXCEPT !.now = now, !.calls = @ + 1, !.vibrated = FALSE]
     IN haptic' =
          IF ~haptic.mobile THEN called
          ELSE [called EXCEPT !.lastHapticAt = now, !.passed = TRUE,
                              !.vibrated = (haptic.vibrate = "supported")]
  /\ UNCHANGED <<mapDrag, api, probe, loadVars, seattleNeighborhoodPolygons, needleVars, modeVars,
                 hoverVars, visitVars, camera, pending, lastDrop, photoVars>>

\* hapticTap, called dt milliseconds after the previous call (after the
\* clock's origin for the first call): nothing on a device that is not
\* mobile, nothing within the cooldown; otherwise the timestamp is taken and
\* navigator.vibrate(10) is called when the browser has it.
hapticTap(dt) ==
  /\ haptic.calls < MaxTaps
  /\ LET now == haptic.now + dt
         called == [haptic EXCEPT !.now = now, !.calls = @ + 1, !.vibrated = FALSE]
     IN haptic' =
          IF ~haptic.mobile THEN called
          ELSE IF now - haptic.lastHapticAt < COOLDOWN_MS THEN called
          ELSE [called EXCEPT !.lastHapticAt = now, !.passed = TRUE,
                              !.vibrated = (haptic.vibrate = "supported")]
  /\ UNCHANGED <<mapDrag, api, probe, loadVars, seattleNeighborhoodPolygons, needleVars, modeVars,
                 hoverVars, visitVars, camera, pending, lastDrop, photoVars>>

\* The device (pointer: coarse or touch events, or neither), the browser
\* (with or without navigator.vibrate) and the clock: performance.now(),
\* which counts from the page's time origin, or Date.now().
HapticInit ==
  /\ mapLibReady = FALSE
  /\ mapSteady = FALSE
  /\ overlayReady = FALSE
  /\ mapError = NoError
  /\ seattleNeighborhoodPolygons = <<>>
  /\ placements = <<>>
  /\ isPlacing = TRUE
  /\ movingNeedleId = Null
  /\ visitMode = FALSE
  /\ hoveredNeedleId = Null
  /\ hintNeedleId = Null
  /\ panelNeedleId = Null
  /\ visitedNeedleId = Null
  /\ hoverLatLng = NoLatLng
  /\ nextPlacementId = 1
  /\ placedModels = NoModels
  /\ originalNeedle = NoLatLng
  /\ camera = UnsetCamera
  /\ pending = <<>>
  /\ lastDrop = NoDrop
  /\ polaroid = NoPolaroid
  /\ isDeveloping = FALSE
  /\ photoFlash = FALSE
  /\ polaroidAbort = Null
  /\ photoRequests = <<>>
  /\ nextPhotoId = 1
  /\ probe = NoProbe
  /\ api = NoApiCall
  /\ mapDrag = "idle"
  /\ \E mobile \in BOOLEAN, vibrate \in {"supported", "missing"}, origin \in {0, 1000000} :
       haptic = [NoHaptic EXCEPT !.mobile = mobile, !.vibrate = vibrate, !.now = origin]

\* Taps follow one another (and the first follows the clock's origin) at
\* intervals below, at and above the cooldown.
HapticSpec == HapticInit /\ [][\E dt \in {0, 60, 119, 120, 121, 300} : hapticTap(dt)]_vars

(***************************************************************************)
(* Hit-testing claims, checked under HitSpec.                              *)
(***************************************************************************)

\* Every landmark with its distance from p: the original and the placed ones.
LandmarkDistances(p) ==
  {[id |-> ORIGINAL_NEEDLE_ID, d |-> Dist(p, SEATTLE_CENTER)]}
    \cup { [id |-> placements[k].id,
            d |-> Dist(p, [lat |-> placements[k].lat, lng |-> placements[k].lng])] :
            k \in 1..Len(placements) }

\* l is the nearest landmark to p: every other landmark is farther away.
IsNearest(l, p) ==
  /\ l \in LandmarkDistances(p)
  /\ \A o \in LandmarkDistances(p) : o.id # l.id => o.d > l.d

(***************************************************************************)
(* C11: for every landmark L, placed or original, and every pointer        *)
(* position p in Idle for which L is the nearest landmark: a pointer move  *)
(* to p at exactly 122 m from L does not make L hovered, and a pointer     *)
(* move to p at less than 122 m from L makes L hovered.                    *)
(***************************************************************************)
C11_CaptureRadiusIsStrict ==
  [][\A p \in HitPointerPoints :
       (Idle /\ onPointerMove(TRUE, FALSE, p, p))
       => \A l \in LandmarkDistances(p) :
            IsNearest(l, p)
            => /\ l.d = FOOTPRINT_RADIUS_M => hoveredNeedleId' # l.id
               /\ l.d < FOOTPRINT_RADIUS_M => hoveredNeedleId' = l.id]_vars

C11_PointerOnTheCircle ==
  /\ Idle
  /\ hoverLatLng = NorthOf(4626)
  /\ IsNearest([id |-> placements[Len(placements)].id, d |-> FOOTPRINT_RADIUS_M], hoverLatLng)
  /\ hoveredNeedleId = Null

\* The distance from p to landmark id (INFINITY_M when there is none).
DistanceTo(id, p) ==
  IF \E l \in LandmarkDistances(p) : l.id = id
  THEN (CHOOSE l \in LandmarkDistances(p) : l.id = id).d
  ELSE INFINITY_M

(***************************************************************************)
(* C12: in Idle, once the hint is locked onto landmark A, a pointer move   *)
(* to p changes the hint to a different landmark B only if                 *)
(* distance(p, B) < 0.75 x distance(p, A), for every pair of distinct      *)
(* landmarks, the original included on either side.                        *)
(***************************************************************************)
C12_HintTakeoverNeedsThreeQuarters ==
  [][\A p \in HitPointerPoints :
       ( /\ Idle
         /\ hintNeedleId # Null
         /\ onPointerMove(TRUE, FALSE, p, p)
         /\ hintNeedleId' # Null
         /\ hintNeedleId' # hintNeedleId )
       => 4 * DistanceTo(hintNeedleId', p) < 3 * DistanceTo(hintNeedleId, p)]_vars

(***************************************************************************)
(* C13: whenever the pointer is off the interactive surface (it leaves the *)
(* map wrapper, or a pointer move lands on overlay chrome, a button or a   *)
(* menu), hoveredNeedleId and hintNeedleId are both null right after that  *)
(* event, whatever the hint was locked onto.                               *)
(***************************************************************************)
C13_OffSurfaceClearsHoverAndHint ==
  [][( \/ onPointerLeave
       \/ \E overMenu \in BOOLEAN : onPointerMove(FALSE, overMenu, NoLatLng, NoLatLng) )
     => (hoveredNeedleId' = Null /\ hintNeedleId' = Null)]_vars

(***************************************************************************)
(* C14: while the mode is Visiting no ghost / footprint preview follows    *)
(* the pointer and no click creates or moves a landmark: the landmarks are *)
(* unchanged from entry into Visiting until the visit ends.                *)
(***************************************************************************)
C14_VisitHasNoPreviewAndNoEdits ==
  /\ [](Visiting => ~showGhost)
  /\ [][(Visiting /\ Visiting') => placements' = placements]_vars

(***************************************************************************)
(* C15: Exit View from Visiting sets the camera to the fixed default pose  *)
(* (centre 47.6205, -122.3493; tilt 67; heading 230; range 900) and leaves *)
(* the mode Idle: not Placing, not Moving, not Visiting.                   *)
(***************************************************************************)
C15_ExitViewRestoresCameraAndIdle ==
  [][(Visiting /\ onExitVisit)
     => /\ camera' = [center |-> [lat |-> 47620500, lng |-> -122349300, altitude |-> 0],
                      tilt |-> 67, heading |-> 230, range |-> 900]
        /\ Idle'
        /\ ~Placing' /\ ~Moving' /\ ~Visiting']_vars

(***************************************************************************)
(* C16: the scene writes the camera pose only on Visit, Exit View and      *)
(* Erase Needles, and once when the map library has loaded; placement,     *)
(* move, remove, hover / hint updates, the Place Needle button and photo   *)
(* capture leave centre, heading, tilt and range as they are.  (The map    *)
(* element itself moves the camera on the visitor's gestures.)             *)
(***************************************************************************)
C16_CameraWrittenOnlyByVisitExitErase ==
  [][camera' # camera
     => \/ MapLibraryLoaded
        \/ \E id \in NeedleIds : onVisitNeedle(id)
        \/ onExitVisit
        \/ onClearNeedles
        \/ onCameraGesture]_vars

C16_UserPoseSurvivesRemoveAndPhoto ==
  /\ camera = UserCamera
  /\ Len(placements) = 1
  /\ nextPlacementId = 3
  /\ polaroid.status = "ready"
  /\ Idle


(***************************************************************************)
(* Valuation engine claims (checked on ValSpec).                           *)
(***************************************************************************)

\* C17: the valuation is the same for any two positions that quantize to the
\* same 0.0002-degree grid point, and for the same position asked twice: while
\* placing, the live estimate at the pointer equals the ratePerSqFt, landValue
\* and neighborhoodLabel stored on every placed needle of the pointer's cell.
C17_ValuationConstantPerCell ==
  \A k \in 1..Len(placements) :
    (/\ isPlacing
     /\ hoverLatLng # NoLatLng
     /\ Quantize(hoverLatLng.lat) = Quantize(placements[k].lat)
     /\ Quantize(hoverLatLng.lng) = Quantize(placements[k].lng))
    => /\ placingValuation.ratePerSqFt = placements[k].ratePerSqFt
       /\ placingValuation.landValue = placements[k].landValue
       /\ placingValuation.neighborhoodLabel = placements[k].neighborhoodLabel

\* C18: the base rate and the label of a placed needle follow the number of
\* zones whose circle holds its position: none gives the default 900 USD/sq ft
\* and "Seattle (General)"; exactly one gives that zone's rate and name;
\* several give the arithmetic mean of the matched rates and a border-zone
\* label that lists every matched zone name.  (The stored rate is the base
\* rate times the jitter of the position, in cents.)
C18_RateAndLabelFollowMatchCount ==
  \A k \in 1..Len(placements) :
    LET l == placements[k]
        at == [lat |-> l.lat, lng |-> l.lng]
        matched == { i \in 1..Len(ZONES) : distanceMeters(at, ZONES[i].center) <= ZONES[i].radiusM }
        n == Cardinality(matched)
        jitter == JitterE5(l.lat, l.lng)
        RECURSIVE Total(_)
        Total(S) == IF S = {} THEN 0
                    ELSE LET i == CHOOSE j \in S : TRUE
                         IN ZONES[i].ratePerSqFt + Total(S \ {i})
        label == l.neighborhoodLabel
    IN IF n = 0
       THEN /\ l.ratePerSqFt = (DEFAULT_RATE_PER_SQFT * jitter) \div 1000
            /\ label = <<"Seattle (General)">>
       ELSE IF n = 1
       THEN \E i \in matched :
              /\ l.ratePerSqFt = (ZONES[i].ratePerSqFt * jitter) \div 1000
              /\ label = <<ZONES[i].name>>
       ELSE /\ l.ratePerSqFt = (Total(matched) * jitter) \div (n * 1000)
            /\ Len(label) = n + 1
            /\ label[1] = "Border Zone"
            /\ { label[j] : j \in 2..Len(label) } = { ZONES[i].name : i \in matched }

\* A needle stands where two zones overlap while the pointer is over a
\* position that no zone holds.
C18_BorderNeedleAndGeneralPointer ==
  /\ Len(placements) = 1
  /\ Len(placements[1].neighborhoodLabel) = 3
  /\ isPlacing
  /\ placingValuation.neighborhoodLabel = <<"Seattle (General)">>

\* C19: the landValue of a placed needle is an integer multiple of 10,000 USD
\* and equals round(rate x jitter x baseArea x softCostMult / 10000) x 10000,
\* where rate x jitter is the stored ratePerSqFt; the jitter lies in
\* [0.95, 1.05) and depends only on the seed of the quantized coordinate: it
\* is the jitter of the needle's grid point and of every pointer position in
\* the needle's cell.
C19_LandValueRoundedAndJitterPerCell ==
  \A k \in 1..Len(placements) :
    LET l == placements[k]
        jitter == JitterE5(l.lat, l.lng)
        \* ratePerSqFt (cents) x 15.21711, rounded: the rate split at 1000 cents
        thousands == (l.ratePerSqFt \div 1000) * AREA_SOFT_COST_E5
        rest == (l.ratePerSqFt % 1000) * AREA_SOFT_COST_E5
        units == (thousands + (rest + 5000000) \div 1000) \div 10000
    IN /\ l.landValue % 10000 = 0
       /\ l.landValue = units * 10000
       /\ jitter >= 95000
       /\ jitter < 105000
       /\ jitter = JitterE5(Quantize(l.lat), Quantize(l.lng))
       /\ (/\ hoverLatLng # NoLatLng
           /\ Quantize(hoverLatLng.lat) = Quantize(l.lat)
           /\ Quantize(hoverLatLng.lng) = Quantize(l.lng))
          => JitterE5(hoverLatLng.lat, hoverLatLng.lng) = jitter

\* A needle stands on an off-grid position and the pointer is over another
\* position of the same cell.
C19_PointerInTheNeedlesCell ==
  /\ Len(placements) = 1
  /\ placements[1].landValue > 0
  /\ Quantize(placements[1].lat) # placements[1].lat
  /\ hoverLatLng # NoLatLng
  /\ hoverLatLng.lat # placements[1].lat
  /\ Quantize(hoverLatLng.lat) = Quantize(placements[1].lat)
  /\ Quantize(hoverLatLng.lng) = Quantize(placements[1].lng)

\* C20: the tourism revenue of a placed needle is never zero or negative: it
\* lies in [0.3e9, 1.4e9] USD for a position inside the city-limits box and
\* in [0.05e9, 0.5e9] USD for a position outside it.
C20_TourismRevenueWithinItsRange ==
  \A k \in 1..Len(placements) :
    LET l == placements[k]
    IN /\ l.tourismRevenue > 0
       /\ IF InBounds(l.lat, l.lng, SEATTLE_CITY_LIMITS)
          THEN /\ l.tourismRevenue >= 300000000
               /\ l.tourismRevenue <= 1400000000
          ELSE /\ l.tourismRevenue >= 50000000
               /\ l.tourismRevenue <= 500000000

\* A needle stands inside the city box, 9 km from the original, where the
\* decayed figure is below the floor and the floor is what is stored.
C20_NeedleAtTheInsideFloor ==
  /\ Len(placements) = 1
  /\ InBounds(placements[1].lat, placements[1].lng, SEATTLE_CITY_LIMITS)
  /\ placements[1].lat = 47540000
  /\ placements[1].tourismRevenue = 300000000

C22_ApproximateRoundTrip ==
  (/\ probe.geoVia = "approximate"
   /\ probe.xyVia = "approximate"
   /\ probe.geo # NoLatLng
   /\ probe.anchored = probe.geo
   /\ probe.pose.tilt \in (0..85) \cup {Null}
   /\ probe.x > 0 /\ probe.x < ViewportRect.width
   /\ probe.y > 0 /\ probe.y < ViewportRect.height)
  => /\ Abs(probe.xy.x - 10 * probe.x) <= 1
     /\ Abs(probe.xy.y - 10 * probe.y) <= 1

\* A pixel off the centre has made the round trip under the needle view
\* (tilt 82, where the tilt scale is clamped, heading 10).
C22_RoundTripUnderNeedleView ==
  /\ probe.geoVia = "approximate"
  /\ probe.xyVia = "approximate"
  /\ probe.anchored = probe.geo
  /\ probe.geo # NoLatLng
  /\ probe.pose.tilt = VISIT_TILT
  /\ probe.x = 200
  /\ probe.y = 150

\* C23: the approximate screen-to-geo conversion returns null when the pixel
\* lies outside the viewport rectangle, both approximate conversions return
\* null when a pose field (center, heading, tilt or range) is missing, and in
\* all other cases they return a result.
C23_NullExactlyOnBadInput ==
  LET outside == \/ probe.x < 0 \/ probe.x > ViewportRect.width
                 \/ probe.y < 0 \/ probe.y > ViewportRect.height
      missing == \/ probe.pose.center = NoLatLng \/ probe.pose.heading = Null
                 \/ probe.pose.tilt = Null \/ probe.pose.range = Null
  IN /\ probe.geoVia = "approximate" => ((probe.geo = NoLatLng) <=> (outside \/ missing))
     /\ (probe.xyVia = "approximate" /\ probe.anchored # NoLatLng)
          => ((probe.xy = NoXY) <=> missing)

\* C23 as amended: the approximate screen-to-geo conversion returns null
\* exactly when the pixel lies outside the viewport rectangle or the pose has
\* no center, and the approximate geo-to-screen conversion exactly when the
\* pose has no center or there is no position to convert; a missing range,
\* tilt or heading is replaced by 1200 m, 0 and 0.
C23_NullExactlyOnBadPixelOrCenter ==
  LET outside == \/ probe.x < 0 \/ probe.x > ViewportRect.width
                 \/ probe.y < 0 \/ probe.y > ViewportRect.height
      defaults == [probe.pose EXCEPT !.range = IF @ = Null THEN 1200 ELSE @,
                                     !.tilt = IF @ = Null THEN 0 ELSE @,
                                     !.heading = IF @ = Null THEN 0 ELSE @]
  IN /\ probe.geoVia = "approximate"
          => /\ (probe.geo = NoLatLng) <=> (outside \/ probe.pose.center = NoLatLng)
             /\ probe.geo = pixelToApproxLatLng(defaults, ViewportRect, probe.x, probe.y)
     /\ probe.xyVia = "approximate"
          => ((probe.xy = NoXY) <=> (probe.pose.center = NoLatLng \/ probe.anchored = NoLatLng))

\* A pixel inside the viewport has been converted, and the position converted
\* back, under a pose whose range is missing.
C23_ConvertedWithoutRange ==
  /\ probe.pose.range = Null
  /\ probe.geoVia = "approximate"
  /\ probe.geo # NoLatLng
  /\ probe.xyVia = "approximate"
  /\ probe.xy # NoXY

\* C24: whenever the overlay projection throws, returns null or is not yet
\* attached, the conversion returns what the approximation returns, in both
\* directions: the position of a pointer pixel, and the pixel of a needle
\* anchor obtained through latLngToWrapperPixelWithProjection.
C24_FallsBackToApproximation ==
  probe.engine # "ok"
  => /\ probe.geoVia # "none"
          => probe.geo = pixelToApproxLatLng(probe.pose, ViewportRect, probe.x, probe.y)
     /\ probe.caller = "needleAnchors"
          => probe.xy = latLngToContainerPixel(probe.pose, ViewportRect, probe.anchored)

\* C25: the conversion of the pointer pixel to a position and the conversion
\* of a position to the pixel of an indicator (needle anchor, hint, press
\* ring, poof) use the same implementation: both the overlay projection
\* while it is available, both the approximation otherwise.
C25_SameProjectorBothDirections ==
  (probe.geo # NoLatLng /\ probe.xy # NoXY)
  => probe.xyVia = probe.geoVia

(***************************************************************************)
(* Photo claims, checked under PhotoSpec and CamSpec.                      *)
(***************************************************************************)

\* C26: a step that starts a new image request (Take Photo) or dismisses the
\* polaroid leaves every request that was in flight before the step aborted.
C26_StartOrDismissAbortsInFlight ==
  [][ (nextPhotoId' # nextPhotoId \/ (polaroid # NoPolaroid /\ polaroid' = NoPolaroid))
      => \A k \in 1..Len(photoRequests) : photoRequests'[k].aborted ]_vars

\* C27: when an image request that was not aborted ends with a non-OK
\* response, a response without an image or a rejected fetch, the polaroid on
\* display gets the status "failed" and keeps its image, and the needles, the
\* interaction mode and the camera pose stay as they were.
C27_FailedRequestMarksPolaroidFailed ==
  [][ \A i \in 1..MaxPhotos, resp \in PhotoResponses \ {"image"} :
        ( /\ i <= Len(photoRequests)
          /\ ~photoRequests[i].aborted
          /\ onTakePhotoResume(i, resp) )
        => /\ polaroid'.status = "failed"
           /\ polaroid'.image = polaroid.image
           /\ UNCHANGED <<placements, modeVars, camera>> ]_vars

(***************************************************************************)
(* Loading claims, checked under Spec.                                     *)
(***************************************************************************)

\* C28: once loading the map library has failed, mapError stays set, the
\* loading overlay stays up (showLoading: the library or the steady state is
\* missing), and no needle is placed, moved, removed or visited afterwards.
C28_LoadFailureIsFinal ==
  [][ mapError' # NoError
      => /\ ~mapLibReady' \/ ~mapSteady'
         /\ placements' = <<>>
         /\ placedModels' = NoModels
         /\ movingNeedleId' = Null
         /\ ~visitMode'
         /\ visitedNeedleId' = Null
         /\ pending' = <<>>
         /\ mapError # NoError => mapError' = mapError ]_vars

\* The load has failed and the session went on (the GeoJSON arrived).
C28_SessionContinuesAfterFailure ==
  /\ mapError # NoError
  /\ seattleNeighborhoodPolygons # <<>>

(***************************************************************************)
(* Claims about the serverless function, checked under ApiSpec.            *)
(***************************************************************************)

\* C29: a POST with a usable body, handled while no image-API key is
\* configured, is answered with status 200 and a dataUrl holding the
\* placeholder image.
C29_PlaceholderWhenNoKey ==
  ( /\ api.status # 0
    /\ api.method = "POST"
    /\ api.body \in {"object", "json", "absent"}
    /\ ~api.OPENAI_API_KEY
    /\ ~api.REPLICATE_API_TOKEN )
  => /\ api.status = 200
     /\ api.reply = "dataUrl: " \o PLACEHOLDER_DATA_URL

(***************************************************************************)
(* Drag claims, checked under DragSpec.                                    *)
(***************************************************************************)

\* C30: a click that arrives while the map is being dragged, or within the
\* 250 ms after the drag ended, starts no placement (every placement the
\* click handler starts ends with a needle added).
C30_NoPlacementWhileDragging ==
  [][ mapDrag # "idle"
      => ~( /\ Len(pending') > Len(pending)
            /\ pending'[Len(pending')].kind = "place" ) ]_vars

(***************************************************************************)
(* Further hit-testing claims, checked under HitSpec.                      *)
(***************************************************************************)

\* C31: after a pointer move in Idle to a position that is not strictly
\* within the capture radius of any landmark, placed or original, both
\* hoveredNeedleId and hintNeedleId are null.
C31_OutsideEveryRadiusClearsBoth ==
  [][\A p \in HitPointerPoints :
       ( /\ Idle
         /\ onPointerMove(TRUE, FALSE, p, p)
         /\ \A l \in LandmarkDistances(p) : l.d >= FOOTPRINT_RADIUS_M )
       => (hoveredNeedleId' = Null /\ hintNeedleId' = Null)]_vars

(***************************************************************************)
(* Claims about clicks whose elevation lookup is pending, checked under    *)
(* Spec.                                                                   *)
(***************************************************************************)

\* C32: whenever no needle is placed the placing flag is set, so that a click
\* on the map can start a placement (with nothing placed and the flag clear
\* the Place Needle button is disabled and clicks only open menus).
C32_NothingPlacedImpliesPlacing ==
  Len(placements) = 0 => isPlacing

\* C33: one entry into Placing yields at most one needle: when a confirming
\* click adds its needle, no other confirming click received before that
\* moment is still waiting to add one.
C33_OneNeedlePerPlacing ==
  [][ Len(placements') = Len(placements) + 1
      => \A k \in 1..Len(pending') : pending'[k].kind # "place" ]_vars

\* C34: Erase Needles leaves no confirming click behind that will still add
\* a needle: after the erase no placement continuation is pending, so the
\* scene stays empty until a click made after the erase.
C34_EraseDropsPendingPlacements ==
  [][ onClearNeedles
      => \A k \in 1..Len(pending') : pending'[k].kind # "place" ]_vars

\* C35: whenever a needle is being moved (movingNeedleId is set) the preview
\* flag isPlacing is set, whatever click continuations complete meanwhile.
C35_MovingImpliesPlacing ==
  movingNeedleId # Null => isPlacing

\* C36: every placed needle that is not being moved has one rendered model,
\* standing at the needle's stored position, and no model is left for a
\* needle that was removed or erased.
C36_OneModelPerNeedleAtItsPosition ==
  /\ \A k \in 1..Len(placements) :
       placements[k].id # movingNeedleId
       => /\ placements[k].id \in DOMAIN placedModels
          /\ placedModels[placements[k].id] =
               [lat |-> placements[k].lat, lng |-> placements[k].lng,
                altitude |-> placements[k].altitude]
  /\ \A id \in DOMAIN placedModels : FindIndex(placements, id) # 0

(***************************************************************************)
(* Further photo claims, checked under PhotoSpec.                          *)
(***************************************************************************)

\* C37: the response of an image request changes only the polaroid that the
\* same request created: a polaroid of another Take Photo is left as it is,
\* and a dismissed polaroid is not brought back.
C37_ResponseTouchesOnlyItsOwnPolaroid ==
  [][ \A i \in 1..MaxPhotos, resp \in PhotoResponses :
        ( /\ i <= Len(photoRequests)
          /\ onTakePhotoResume(i, resp) )
        => \/ polaroid' = polaroid
           \/ /\ polaroid.id = photoRequests[i].id
              /\ polaroid'.id = polaroid.id
              /\ polaroid'.needleId = polaroid.needleId
              /\ polaroid'.lat = polaroid.lat
              /\ polaroid'.lng = polaroid.lng ]_vars

\* The responses of the first two requests have arrived (the finally block
\* of the last one has cleared isDeveloping) while the polaroid of the third
\* Take Photo is shown and still developing.
C37_LateResponseUnderNewerPolaroid ==
  /\ polaroid.id = 3
  /\ polaroid.status = "developing"
  /\ photoRequests = <<[id |-> 3, aborted |-> FALSE]>>
  /\ ~isDeveloping

\* C38: at most one image request is in flight (sent, not aborted, not yet
\* answered), and isDeveloping is true exactly while one is.
C38_OneRequestAndDevelopingFlag ==
  LET inFlight == { k \in 1..Len(photoRequests) : ~photoRequests[k].aborted }
  IN /\ Cardinality(inFlight) <= 1
     /\ isDeveloping <=> inFlight # {}

(***************************************************************************)
(* Haptic claims, checked under HapticSpec.                                *)
(***************************************************************************)

\* C39: a call of hapticTap vibrates exactly when the device is mobile and
\* at least 120 ms have passed since the last call that passed the cooldown
\* (a first such call always passes); on a device that is not mobile it
\* never vibrates and leaves the timestamp alone.
C39_VibratesExactlyAfterCooldown ==
  [][ haptic'.calls = haptic.calls + 1
      => /\ haptic'.vibrated
              <=> /\ haptic.mobile
                  /\ \/ ~haptic.passed
                     \/ haptic'.now - haptic.lastHapticAt >= COOLDOWN_MS
         /\ ~haptic.mobile
              => (~haptic'.vibrated /\ haptic'.lastHapticAt = haptic.lastHapticAt) ]_vars

\* C39, amended: a call of hapticTap calls navigator.vibrate exactly when the
\* device is mobile, the browser has navigator.vibrate, and at least 120 ms
\* have passed since the last call that passed the cooldown or, when there
\* was none, since time 0 of the clock; on a device that is not mobile it
\* never vibrates and leaves the timestamp alone.
C39_VibratesAfterCooldownWhereSupported ==
  [][ haptic'.calls = haptic.calls + 1
      => /\ haptic'.vibrated
              <=> /\ haptic.mobile
                  /\ haptic.vibrate = "supported"
                  /\ haptic'.now - (IF haptic.passed THEN haptic.lastHapticAt ELSE 0)
                       >= COOLDOWN_MS
         /\ ~haptic.mobile
              => (~haptic'.vibrated /\ haptic'.lastHapticAt = haptic.lastHapticAt) ]_vars

\* A tap made 119 ms after a tap that vibrated: held back by the cooldown.
C39_SecondTapWithinCooldown ==
  /\ haptic.mobile
  /\ haptic.vibrate = "supported"
  /\ haptic.passed
  /\ haptic.calls >= 2
  /\ haptic.now - haptic.lastHapticAt = 119
  /\ ~haptic.vibrated

(***************************************************************************)
(* Further claims about the serverless function, checked under ApiSpec.    *)
(***************************************************************************)

\* C40: every call of the handler sends one response: 405 for a method other
\* than POST, 400 for a body that does not parse; for a body that parses,
\* 200 with a dataUrl only when an image-API key is configured and the image
\* API returned image data (and then, with the OpenAI key, always), and 503
\* with an error otherwise; nothing thrown on the way escapes the handler.
C40_OneResponsePerCall ==
  api.status # 0
  => /\ api.status \in {200, 400, 405, 503}
     /\ api.method # "POST" => api.status = 405
     /\ (api.method = "POST" /\ api.body = "garbage") => api.status = 400
     /\ (api.method = "POST" /\ api.body # "garbage")
          => /\ api.status \in {200, 503}
             /\ api.status = 200
                  => /\ api.OPENAI_API_KEY \/ api.REPLICATE_API_TOKEN
                     /\ api.upstream = "b64_json"
                     /\ api.reply = "dataUrl: generated"
             /\ (api.OPENAI_API_KEY /\ api.upstream = "b64_json") => api.status = 200
             /\ api.status = 503 => api.reply = "error: Image generation not configured"

=============================================================================
